---------------------------- MODULE Spec2Model ----------------------------
(***************************************************************************)
(* A model of the file-ingestion layer of the Modular Data Visualizer:     *)
(* js/core/UniversalDataAdapter.js (classifier, EDF header decoder,        *)
(* dispatcher, standardizer).                                              *)
(*                                                                         *)
(* Representation.  A JavaScript string is a sequence of one-character     *)
(* strings, so that split, toLowerCase, startsWith, trim, parseInt and     *)
(* parseFloat are computed character by character.  A byte of an           *)
(* ArrayBuffer is the character it encodes; the zero byte is NUL.  A       *)
(* JavaScript number is a record [k, n, d]: k = "fin" is the rational n/d  *)
(* (d > 0, lowest terms), k = "nan" is NaN, k = "inf" / "ninf" are the     *)
(* infinities.  A JavaScript object that is shared by reference (the       *)
(* adapter's metadata object) lives in a heap and is named by its index.   *)
(***************************************************************************)
EXTENDS Integers, Sequences, FiniteSets, TLC

VARIABLES
    calls,          \* loadFile invocations: position, locals, outcome
    detectedType,   \* this.detectedType
    metadata,       \* this.metadata: a reference into heap
    heap,           \* the metadata objects ever allocated
    rawData,        \* this.rawData
    now,            \* the clock read by new Date()
    arg,            \* input of a pure operation under test
    ret,            \* its result
    app,            \* the ModularDataVisualizer instance of main.js
    vizEngine,      \* its VisualizationEngine
    handlers,       \* handleFiles invocations: position and locals
    browser         \* the page: audio clock and sources, callbacks pending

vars == <<calls, detectedType, metadata, heap, rawData, now, arg, ret,
          app, vizEngine, handlers, browser>>

adapterVars == <<calls, detectedType, metadata, heap, rawData, now>>

appVars == <<app, vizEngine, handlers, browser>>

-----------------------------------------------------------------------------
(* Bounds of the model *)

\* number of loadFile invocations in one behaviour
MaxCalls == 2

\* last value of the clock
MaxTime == 1

\* largest number of dot-separated parts of a file name
MaxParts == 3

\* largest number of signal headers in an EDF file
MaxSignals == 2

\* largest number of triangle records in a binary STL buffer
MaxTriangles == 2

\* largest number of lines of a text file
MaxLines == 4

\* largest number of lines after the first of an STL text
MaxFacetLines == 3

\* largest count an element line of a PLY header declares
MaxElements == 2

\* the audio sources one page creates
MaxSources == 2

\* the seconds the clock of the audio context runs
MaxAudioTime == 1

\* the decodeAudioData calls under way at one time
MaxDecodes == 2

-----------------------------------------------------------------------------
(* Strings *)

UpperChars == <<"A","B","C","D","E","F","G","H","I","J","K","L","M",
                "N","O","P","Q","R","S","T","U","V","W","X","Y","Z">>

LowerChars == <<"a","b","c","d","e","f","g","h","i","j","k","l","m",
                "n","o","p","q","r","s","t","u","v","w","x","y","z">>

ToLowerChar(c) ==
    IF \E i \in 1..Len(UpperChars) : UpperChars[i] = c
    THEN LowerChars[CHOOSE i \in 1..Len(UpperChars) : UpperChars[i] = c]
    ELSE c

\* String.prototype.toLowerCase
toLowerCase(s) == [i \in 1..Len(s) |-> ToLowerChar(s[i])]

\* String.prototype.startsWith
startsWith(s, p) == Len(s) >= Len(p) /\ SubSeq(s, 1, Len(p)) = p

\* String.prototype.split('.'): the parts between the dots, empty parts kept
RECURSIVE SplitDot(_, _, _)
SplitDot(s, i, cur) ==
    IF i > Len(s) THEN <<cur>>
    ELSE IF s[i] = "." THEN <<cur>> \o SplitDot(s, i + 1, <<>>)
    ELSE SplitDot(s, i + 1, Append(cur, s[i]))

split(s) == SplitDot(s, 1, <<>>)

-----------------------------------------------------------------------------
(* The classifier *)

\* this.supportedFormats, in the insertion order Object.entries walks
supportedFormats == <<
    [type |-> "audio", extensions |-> <<
        <<".","w","a","v">>, <<".","m","p","3">>, <<".","o","g","g">>,
        <<".","f","l","a","c">>, <<".","m","4","a">> >>],
    [type |-> "eeg", extensions |-> <<
        <<".","e","d","f">>, <<".","b","d","f">>, <<".","f","i","f">>,
        <<".","s","e","t">>, <<".","c","s","v">>, <<".","t","x","t">> >>],
    [type |-> "neuroimaging", extensions |-> <<
        <<".","n","i","i">>, <<".","n","i","i",".","g","z">>,
        <<".","d","c","m">>, <<".","d","i","c","o","m">> >>],
    [type |-> "mesh3d", extensions |-> <<
        <<".","o","b","j">>, <<".","s","t","l">>, <<".","p","l","y">>,
        <<".","g","l","t","f">>, <<".","g","l","b">> >>],
    [type |-> "pointcloud", extensions |-> <<
        <<".","x","y","z">>, <<".","p","c","d">>, <<".","p","t","s">>,
        <<".","a","s","c">> >>],
    [type |-> "timeseries", extensions |-> <<
        <<".","c","s","v">>, <<".","t","s","v">>, <<".","j","s","o","n">>,
        <<".","t","x","t">> >>],
    [type |-> "image", extensions |-> <<
        <<".","p","n","g">>, <<".","j","p","g">>, <<".","j","p","e","g">>,
        <<".","t","i","f","f">>, <<".","b","m","p">> >>],
    [type |-> "video", extensions |-> <<
        <<".","m","p","4">>, <<".","w","e","b","m">>, <<".","a","v","i">> >>],
    [type |-> "generic", extensions |-> <<
        <<".","b","i","n">>, <<".","d","a","t">> >>] >>

\* Array.prototype.includes
includes(arr, x) == \E i \in 1..Len(arr) : arr[i] = x

\* getFileExtension(filename)
getFileExtension(filename) ==
    LET parts == split(toLowerCase(filename))
        n     == Len(parts)
    IN  IF n = 1 THEN <<>>
        ELSE IF parts[n - 1] = <<"n","i","i">> /\ parts[n] = <<"g","z">>
             THEN <<".","n","i","i",".","g","z">>
        ELSE <<".">> \o parts[n]

\* the MIME fallback without its last line, return 'generic'
MimeFallbackNoDefault(mime) ==
    IF startsWith(mime, <<"a","u","d","i","o","/">>) THEN "audio"
    ELSE IF startsWith(mime, <<"i","m","a","g","e","/">>) THEN "image"
    ELSE IF startsWith(mime, <<"v","i","d","e","o","/">>) THEN "video"
    ELSE "undefined"

\* the MIME fallback of detectDataType
MimeFallback(mime) ==
    IF startsWith(mime, <<"a","u","d","i","o","/">>) THEN "audio"
    ELSE IF startsWith(mime, <<"i","m","a","g","e","/">>) THEN "image"
    ELSE IF startsWith(mime, <<"v","i","d","e","o","/">>) THEN "video"
    ELSE "generic"

\* detectDataType with the MIME prefixes tried before the table
detectDataTypeMimeFirst(extension, file) ==
    IF startsWith(file.type, <<"a","u","d","i","o","/">>) THEN "audio"
    ELSE IF startsWith(file.type, <<"i","m","a","g","e","/">>) THEN "image"
    ELSE IF startsWith(file.type, <<"v","i","d","e","o","/">>) THEN "video"
    ELSE IF \E k \in 1..Len(supportedFormats) :
            includes(supportedFormats[k].extensions, extension)
    THEN supportedFormats[
            CHOOSE k \in 1..Len(supportedFormats) :
                /\ includes(supportedFormats[k].extensions, extension)
                /\ \A j \in 1..(k - 1) :
                      ~includes(supportedFormats[j].extensions, extension)].type
    ELSE "generic"

\* detectDataType(extension, file): the first category, in table order, that
\* lists the extension; else the MIME prefix; else 'generic'
detectDataType(extension, file) ==
    IF \E k \in 1..Len(supportedFormats) :
            includes(supportedFormats[k].extensions, extension)
    THEN LET k == CHOOSE k \in 1..Len(supportedFormats) :
                    /\ includes(supportedFormats[k].extensions, extension)
                    /\ \A j \in 1..(k - 1) :
                          ~includes(supportedFormats[j].extensions, extension)
         IN  supportedFormats[k].type
    ELSE MimeFallback(file.type)

-----------------------------------------------------------------------------
(* Numbers *)

RECURSIVE GCD(_, _)
GCD(a, b) == IF b = 0 THEN a ELSE GCD(b, a % b)

Abs(n) == IF n < 0 THEN -n ELSE n

NaN == [k |-> "nan", n |-> 0, d |-> 1]

Infinity == [k |-> "inf", n |-> 0, d |-> 1]

NegInfinity == [k |-> "ninf", n |-> 0, d |-> 1]

\* the finite number n/d, d # 0, in lowest terms with a positive denominator
Fin(n, d) ==
    LET g == GCD(Abs(n), Abs(d))
        s == IF d < 0 THEN -1 ELSE 1
    IN  [k |-> "fin", n |-> (s * n) \div g, d |-> (s * d) \div g]

Num(n) == Fin(n, 1)

isNaN(x) == x.k = "nan"

Sign(x) ==
    CASE x.k = "inf" -> 1
      [] x.k = "ninf" -> -1
      [] OTHER -> IF x.n > 0 THEN 1 ELSE IF x.n < 0 THEN -1 ELSE 0

\* the JavaScript operator / on numbers (zero is taken unsigned: +0)
Divide(a, b) ==
    CASE isNaN(a) \/ isNaN(b) -> NaN
      [] a.k # "fin" /\ b.k # "fin" -> NaN
      [] a.k # "fin" ->
            IF Sign(a) * (IF Sign(b) < 0 THEN -1 ELSE 1) > 0
            THEN Infinity ELSE NegInfinity
      [] b.k # "fin" -> Num(0)
      [] b.n = 0 ->
            IF a.n = 0 THEN NaN
            ELSE IF a.n > 0 THEN Infinity ELSE NegInfinity
      [] OTHER -> Fin(a.n * b.d, a.d * b.n)

\* the JavaScript operator * on numbers
Multiply(a, b) ==
    CASE isNaN(a) \/ isNaN(b) -> NaN
      [] a.k # "fin" \/ b.k # "fin" ->
            IF Sign(a) * Sign(b) = 0 THEN NaN
            ELSE IF Sign(a) * Sign(b) > 0 THEN Infinity ELSE NegInfinity
      [] OTHER -> Fin(a.n * b.n, a.d * b.d)

\* a < b on numbers: false when either is NaN
LessThan(a, b) ==
    CASE isNaN(a) \/ isNaN(b) -> FALSE
      [] a.k = "inf" \/ b.k = "ninf" -> FALSE
      [] a.k = "ninf" \/ b.k = "inf" -> TRUE
      [] OTHER -> a.n * b.d < b.n * a.d

RECURSIVE Pow10(_)
Pow10(e) == IF e = 0 THEN 1 ELSE 10 * Pow10(e - 1)

-----------------------------------------------------------------------------
(* parseInt and parseFloat *)

DecDigits == <<"0","1","2","3","4","5","6","7","8","9">>

HexDigits == <<"0","1","2","3","4","5","6","7","8","9",
               "a","b","c","d","e","f">>

WhiteSpace == {" ", "\t", "\n", "\r"}

IsDigit(c, digits) == \E i \in 1..Len(digits) : digits[i] = ToLowerChar(c)

DigitVal(c, digits) ==
    (CHOOSE i \in 1..Len(digits) : digits[i] = ToLowerChar(c)) - 1

\* the index of the first character of s at or after i that is not white space
RECURSIVE SkipWhite(_, _)
SkipWhite(s, i) ==
    IF i <= Len(s) /\ s[i] \in WhiteSpace THEN SkipWhite(s, i + 1) ELSE i

\* the index after the run of digits of s that starts at i
RECURSIVE DigitsEnd(_, _, _)
DigitsEnd(s, i, digits) ==
    IF i <= Len(s) /\ IsDigit(s[i], digits)
    THEN DigitsEnd(s, i + 1, digits) ELSE i

\* the value of the digits s[i..j-1] in the radix Len(digits)
RECURSIVE DigitsValue(_, _, _, _, _)
DigitsValue(s, i, j, digits, acc) ==
    IF i >= j THEN acc
    ELSE DigitsValue(s, i + 1, j, digits,
                     acc * Len(digits) + DigitVal(s[i], digits))

\* String.prototype.trim
RECURSIVE TrimEnd(_)
TrimEnd(s) ==
    IF Len(s) > 0 /\ s[Len(s)] \in WhiteSpace
    THEN TrimEnd(SubSeq(s, 1, Len(s) - 1)) ELSE s

trim(s) == TrimEnd(SubSeq(s, SkipWhite(s, 1), Len(s)))

\* parseInt(s) with no radix: leading white space, a sign, an optional 0x,
\* then the longest run of digits; NaN when that run is empty
IntDigits(s, i, digits, neg) ==
    LET j == DigitsEnd(s, i, digits)
    IN  IF j = i THEN NaN
        ELSE Num((IF neg THEN -1 ELSE 1) * DigitsValue(s, i, j, digits, 0))

IntRadix(s, i, neg) ==
    IF i + 1 <= Len(s) /\ s[i] = "0" /\ s[i + 1] \in {"x", "X"}
    THEN IntDigits(s, i + 2, HexDigits, neg)
    ELSE IntDigits(s, i, DecDigits, neg)

IntSign(s, i) ==
    IF i <= Len(s) /\ s[i] = "-" THEN IntRadix(s, i + 1, TRUE)
    ELSE IF i <= Len(s) /\ s[i] = "+" THEN IntRadix(s, i + 1, FALSE)
    ELSE IntRadix(s, i, FALSE)

parseInt(s) == IntSign(s, SkipWhite(s, 1))

\* parseFloat(s): leading white space, a sign, then Infinity or the longest
\* decimal literal (digits, fraction, exponent); NaN when there is none
ExponentDigits(s, i) ==
    LET j == DigitsEnd(s, i, DecDigits)
    IN  DigitsValue(s, i, j, DecDigits, 0)

\* the exponent part that starts at m, 0 when there is none
Exponent(s, m) ==
    IF m <= Len(s) /\ s[m] \in {"e", "E"}
    THEN IF m + 1 <= Len(s) /\ s[m + 1] = "-" THEN -ExponentDigits(s, m + 2)
         ELSE IF m + 1 <= Len(s) /\ s[m + 1] = "+" THEN ExponentDigits(s, m + 2)
         ELSE ExponentDigits(s, m + 1)
    ELSE 0

Scale(num, den, ex) ==
    IF ex < 0 THEN Fin(num, den * Pow10(-ex)) ELSE Fin(num * Pow10(ex), den)

\* integer digits s[i..j-1], fraction digits s[f0..f1-1], the rest from f1
Mantissa(s, i, j, f0, f1) ==
    IF j = i /\ f1 = f0 THEN NaN
    ELSE Scale(DigitsValue(s, i, j, DecDigits, 0) * Pow10(f1 - f0)
                 + DigitsValue(s, f0, f1, DecDigits, 0),
               Pow10(f1 - f0), Exponent(s, f1))

Fraction(s, i, j) ==
    IF j <= Len(s) /\ s[j] = "."
    THEN Mantissa(s, i, j, j + 1, DigitsEnd(s, j + 1, DecDigits))
    ELSE Mantissa(s, i, j, j, j)

FloatUnsigned(s, i) ==
    IF startsWith(SubSeq(s, i, Len(s)), <<"I","n","f","i","n","i","t","y">>)
    THEN Infinity
    ELSE Fraction(s, i, DigitsEnd(s, i, DecDigits))

Negate(x) ==
    CASE x.k = "nan" -> NaN
      [] x.k = "inf" -> NegInfinity
      [] x.k = "ninf" -> Infinity
      [] x.k = "fin" -> Fin(-x.n, x.d)

FloatSign(s, i) ==
    IF i <= Len(s) /\ s[i] = "-" THEN Negate(FloatUnsigned(s, i + 1))
    ELSE IF i <= Len(s) /\ s[i] = "+" THEN FloatUnsigned(s, i + 1)
    ELSE FloatUnsigned(s, i)

parseFloat(s) == FloatSign(s, SkipWhite(s, 1))

-----------------------------------------------------------------------------
(* Outcomes of a decoder: a value with the writes it made to this.metadata, *)
(* or a thrown error                                                        *)

NoData == [type |-> "none"]

Return(value, writes) ==
    [threw |-> FALSE, error |-> "", value |-> value, writes |-> writes]

Throw(error) ==
    [threw |-> TRUE, error |-> error, value |-> NoData, writes |-> <<>>]

-----------------------------------------------------------------------------
(* The bytes of an EDF file, as parseEDF lays them out *)

NUL == "NUL"

\* character i (from 0) of a fixed-width field holding text, padded by pad
FieldChar(text, pad, i) == IF i < Len(text) THEN text[i + 1] ELSE pad

\* byte pos of the 256-byte file header of the EDF content c
EDFHeaderByte(c, pos) ==
    CASE pos >= 0   /\ pos < 8   -> FieldChar(<<"0">>, " ", pos)
      [] pos >= 8   /\ pos < 88  -> FieldChar(<<"P","1">>, NUL, pos - 8)
      [] pos >= 88  /\ pos < 168 -> FieldChar(<<"R","1">>, NUL, pos - 88)
      [] pos >= 168 /\ pos < 176 ->
            FieldChar(<<"0","1",".","0","2",".","9","9">>, " ", pos - 168)
      [] pos >= 176 /\ pos < 184 ->
            FieldChar(<<"1","0",".","3","0",".","0","0">>, " ", pos - 176)
      [] pos >= 184 /\ pos < 192 -> FieldChar(c.headerBytes, " ", pos - 184)
      [] pos >= 192 /\ pos < 236 -> NUL
      [] pos >= 236 /\ pos < 244 -> FieldChar(c.numRecords, " ", pos - 236)
      [] pos >= 244 /\ pos < 252 -> FieldChar(c.recordDuration, " ", pos - 244)
      [] pos >= 252 /\ pos < 256 -> FieldChar(c.numSignals, " ", pos - 252)

\* byte rel of the 256-byte header of the signal sig
EDFSignalByte(sig, rel) ==
    CASE rel >= 0   /\ rel < 16  -> FieldChar(sig.label, " ", rel)
      [] rel >= 16  /\ rel < 96  -> FieldChar(<<"A","g">>, NUL, rel - 16)
      [] rel >= 96  /\ rel < 104 -> FieldChar(<<"u","V">>, NUL, rel - 96)
      [] rel >= 104 /\ rel < 112 -> FieldChar(<<"-","5","0","0">>, " ", rel - 104)
      [] rel >= 112 /\ rel < 120 -> FieldChar(<<"5","0","0">>, " ", rel - 112)
      [] rel >= 120 /\ rel < 128 -> FieldChar(<<"-","2","0","4","8">>, " ", rel - 120)
      [] rel >= 128 /\ rel < 136 -> FieldChar(<<"2","0","4","7">>, " ", rel - 128)
      [] rel >= 136 /\ rel < 216 -> FieldChar(<<"H","P">>, NUL, rel - 136)
      [] rel >= 216 /\ rel < 224 -> FieldChar(sig.numSamples, " ", rel - 216)
      [] rel >= 224 /\ rel < 256 -> NUL

\* file.arrayBuffer(): the length of the buffer.  A content of kind "edf" is
\* a file header and its signal headers; one of kind "raw" is byteLength
\* zero bytes
ByteLength(c) ==
    IF c.kind = "edf" THEN 256 + 256 * Len(c.signals) ELSE c.byteLength

\* the byte at pos, 0 <= pos < ByteLength(c)
ByteAt(c, pos) ==
    IF c.kind # "edf" THEN NUL
    ELSE IF pos < 256 THEN EDFHeaderByte(c, pos)
    ELSE EDFSignalByte(c.signals[((pos - 256) \div 256) + 1], (pos - 256) % 256)

-----------------------------------------------------------------------------
(* The header reader *)

\* DataView.getUint8 is defined inside the buffer and throws a RangeError
\* outside it
InBounds(c, pos) == pos >= 0 /\ pos < ByteLength(c)

\* readString(dataView, offset, length): the characters up to the first zero
\* byte or the field's width; throws when a byte read is outside the buffer
RECURSIVE ReadStringFrom(_, _, _, _, _)
ReadStringFrom(c, offset, length, i, str) ==
    IF i >= length THEN [threw |-> FALSE, str |-> str]
    ELSE IF ~InBounds(c, offset + i) THEN [threw |-> TRUE, str |-> str]
    ELSE IF ByteAt(c, offset + i) = NUL THEN [threw |-> FALSE, str |-> str]
    ELSE ReadStringFrom(c, offset, length, i + 1,
                        Append(str, ByteAt(c, offset + i)))

readString(c, offset, length) == ReadStringFrom(c, offset, length, 0, <<>>)

-----------------------------------------------------------------------------
(* parseEDF *)

\* the fixed-offset reads of the file header, in the order the code makes them
EDFHeaderReads(c) == <<
    readString(c, 0, 8), readString(c, 8, 80), readString(c, 88, 80),
    readString(c, 168, 8), readString(c, 176, 8), readString(c, 184, 8),
    readString(c, 192, 44), readString(c, 236, 8), readString(c, 244, 8),
    readString(c, 252, 4) >>

EDFHeader(r) ==
    [version        |-> r[1].str,
     patientID      |-> r[2].str,
     recordingID    |-> r[3].str,
     startDate      |-> r[4].str,
     startTime      |-> r[5].str,
     headerBytes    |-> parseInt(r[6].str),
     reserved       |-> r[7].str,
     numRecords     |-> parseInt(r[8].str),
     recordDuration |-> parseFloat(r[9].str),
     numSignals     |-> parseInt(r[10].str)]

\* the reads of one 256-byte signal header at offset
EDFSignalReads(c, offset) == <<
    readString(c, offset, 16), readString(c, offset + 16, 80),
    readString(c, offset + 96, 8), readString(c, offset + 104, 8),
    readString(c, offset + 112, 8), readString(c, offset + 120, 8),
    readString(c, offset + 128, 8), readString(c, offset + 136, 80),
    readString(c, offset + 216, 8), readString(c, offset + 224, 32) >>

EDFSignal(r) ==
    [label             |-> trim(r[1].str),
     transducerType    |-> r[2].str,
     physicalDimension |-> r[3].str,
     physicalMin       |-> parseFloat(r[4].str),
     physicalMax       |-> parseFloat(r[5].str),
     digitalMin        |-> parseInt(r[6].str),
     digitalMax        |-> parseInt(r[7].str),
     prefiltering      |-> r[8].str,
     numSamples        |-> parseInt(r[9].str),
     reserved          |-> r[10].str]

AnyThrew(r) == \E i \in 1..Len(r) : r[i].threw

\* for (let i = 0; i < header.numSignals; i++) { signals.push(...); offset += 256 }
RECURSIVE EDFSignals(_, _, _, _, _)
EDFSignalsPush(c, i, numSignals, offset, signals, r) ==
    IF AnyThrew(r) THEN [threw |-> TRUE, signals |-> signals]
    ELSE EDFSignals(c, i + 1, numSignals, offset + 256,
                    Append(signals, EDFSignal(r)))

EDFSignals(c, i, numSignals, offset, signals) ==
    IF ~LessThan(Num(i), numSignals)
    THEN [threw |-> FALSE, signals |-> signals]
    ELSE EDFSignalsPush(c, i, numSignals, offset, signals,
                        EDFSignalReads(c, offset))

\* the quotient taken the wrong way round
EDFSampleRateInverted(signals, header) ==
    Divide(header.recordDuration, signals[1].numSamples)

\* this.metadata.sampleRate = signals[0].numSamples / header.recordDuration
EDFSampleRate(signals, header) ==
    Divide(signals[1].numSamples, header.recordDuration)

\* this.metadata.duration = header.numRecords * header.recordDuration
EDFDuration(header) == Multiply(header.numRecords, header.recordDuration)

\* the return statement of parseEDF and the three fields it wrote before
EDFResult(header, signals, sampleRate) ==
    Return([type       |-> "eeg",
            header     |-> header,
            signals    |-> signals,
            dataOffset |-> header.headerBytes,
            sampleRate |-> sampleRate,
            channels   |-> header.numSignals],
           << <<"sampleRate", sampleRate>>,
              <<"channels", header.numSignals>>,
              <<"duration", EDFDuration(header)>> >>)

\* after the loop: reading signals[0] of an empty list throws a TypeError
EDFAfterLoop(header, loop) ==
    IF loop.threw THEN Throw("RangeError")
    ELSE IF Len(loop.signals) = 0 THEN Throw("TypeError")
    ELSE EDFResult(header, loop.signals, EDFSampleRate(loop.signals, header))

EDFAfterHeader(c, header) ==
    EDFAfterLoop(header, EDFSignals(c, 0, header.numSignals, 256, <<>>))

EDFAfterReads(c, r) ==
    IF AnyThrew(r) THEN Throw("RangeError") ELSE EDFAfterHeader(c, EDFHeader(r))

\* parseEDF(file), from the resolution of file.arrayBuffer() to its return
parseEDF(c) == EDFAfterReads(c, EDFHeaderReads(c))

-----------------------------------------------------------------------------
(* The other decoders and the dispatcher *)

\* parseAudio(file), after file.arrayBuffer() resolves
parseAudio(file) ==
    LET byteLength == ByteLength(file.content)
    IN  Return([type        |-> "audio",
                arrayBuffer |-> file.content,
                filename    |-> file.name,
                size        |-> Num(byteLength)],
               << <<"estimatedDuration",
                    Divide(Num(byteLength), Num(48000 * 2 * 2))>>,
                  <<"channels", Num(2)>> >>)

\* parseVideo(file): no await, no metadata
parseVideo(file) ==
    Return([type |-> "video", url |-> file.name, file |-> file.name], <<>>)

\* parseGeneric(file), after file.arrayBuffer() resolves
parseGeneric(file) ==
    Return([type   |-> "generic",
            buffer |-> file.content,
            size   |-> Num(ByteLength(file.content))], <<>>)

IsEDFExtension(extension) ==
    extension \in {<<".","e","d","f">>, <<".","b","d","f">>}

IsCSVExtension(extension) ==
    extension \in {<<".","c","s","v">>, <<".","t","x","t">>}

IsNIfTIExtension(extension) ==
    extension \in {<<".","n","i","i">>, <<".","n","i","i",".","g","z">>}

\* parseEEG(file, extension) for the formats that are not CSV text
parseEEG(file, extension) ==
    IF IsEDFExtension(extension) THEN parseEDF(file.content)
    ELSE Throw("Error: EEG format not yet implemented")

\* parseNeuroimaging(file, extension) for the formats that are not NIfTI
parseNeuroimaging(file, extension) ==
    Throw("Error: Neuroimaging format not yet implemented")

\* the files whose decoding is modelled here: audio, the EEG and neuroimaging
\* formats above, video and generic data
Decodable(dataType, extension) ==
    \/ dataType \in {"audio", "video", "generic"}
    \/ dataType = "eeg" /\ ~IsCSVExtension(extension)
    \/ dataType = "neuroimaging" /\ ~IsNIfTIExtension(extension)

\* whether the decoder the switch of loadFile selects awaits the file's bytes
\* before it settles: parseVideo does not, and parseEEG / parseNeuroimaging
\* throw at once for the formats they do not implement
AwaitsBytes(dataType, extension) ==
    CASE dataType = "audio" -> TRUE
      [] dataType = "eeg" -> IsEDFExtension(extension)
      [] dataType = "neuroimaging" -> FALSE
      [] dataType = "video" -> FALSE
      [] dataType = "generic" -> TRUE

\* the decoder the switch of loadFile selects, run on the file
Decode(dataType, extension, file) ==
    CASE dataType = "audio" -> parseAudio(file)
      [] dataType = "eeg" -> parseEEG(file, extension)
      [] dataType = "neuroimaging" -> parseNeuroimaging(file, extension)
      [] dataType = "video" -> parseVideo(file)
      [] dataType = "generic" -> parseGeneric(file)

-----------------------------------------------------------------------------
(* Objects *)

\* obj[field] = value on a JavaScript object
SetField(obj, field, value) ==
    [x \in (DOMAIN obj) \cup {field} |-> IF x = field THEN value ELSE obj[x]]

\* the assignments writes, in order, on obj
RECURSIVE ApplyWrites(_, _)
ApplyWrites(obj, writes) ==
    IF writes = <<>> THEN obj
    ELSE ApplyWrites(SetField(obj, writes[1][1], writes[1][2]), Tail(writes))

\* the object literal loadFile assigns to this.metadata
NewMetadata(file, extension, dataType) ==
    [filename     |-> file.name,
     size         |-> Num(ByteLength(file.content)),
     type         |-> dataType,
     extension    |-> extension,
     mimeType     |-> file.type,
     lastModified |-> file.lastModified]

NoEnvelope == [type |-> "none"]

\* standardizeData(parsedData): metadata is this.metadata, by reference
standardizeData(parsedData) ==
    [type      |-> parsedData.type,
     metadata  |-> metadata,
     data      |-> parsedData,
     timestamp |-> now]

-----------------------------------------------------------------------------
(* The files a caller may hand to loadFile *)

ValidEDF ==
    [kind           |-> "edf",
     headerBytes    |-> <<"5","1","2">>,
     numRecords     |-> <<"1","0">>,
     recordDuration |-> <<"0",".","5">>,
     numSignals     |-> <<"1">>,
     signals        |-> << [label      |-> <<"F","p","1">>,
                            numSamples |-> <<"2","5","6">>] >>]

FileTable == <<
    [name |-> <<"s","o","n","g",".","w","a","v">>,
     type |-> <<"a","u","d","i","o","/","w","a","v">>,
     lastModified |-> 11,
     content |-> [kind |-> "raw", byteLength |-> 384000]],
    [name |-> <<"r","e","c",".","E","D","F">>,
     type |-> <<>>,
     lastModified |-> 12,
     content |-> ValidEDF],
    [name |-> <<"e","m","p","t","y",".","e","d","f">>,
     type |-> <<>>,
     lastModified |-> 13,
     content |-> [ValidEDF EXCEPT !.numSignals = <<"0">>, !.signals = <<>>]],
    [name |-> <<"m","e","g",".","f","i","f">>,
     type |-> <<>>,
     lastModified |-> 14,
     content |-> [kind |-> "raw", byteLength |-> 64]],
    [name |-> <<"c","l","i","p",".","m","p","4">>,
     type |-> <<"v","i","d","e","o","/","m","p","4">>,
     lastModified |-> 15,
     content |-> [kind |-> "raw", byteLength |-> 1024]],
    [name |-> <<"n","o","t","e","s">>,
     type |-> <<>>,
     lastModified |-> 16,
     content |-> [kind |-> "raw", byteLength |-> 10]] >>

Files == 1..Len(FileTable)

Calls == 1..MaxCalls

-----------------------------------------------------------------------------
(* The adapter: constructor and loadFile *)

NoOutcome == [threw |-> FALSE, error |-> "", value |-> NoData, writes |-> <<>>]

IdleCall ==
    [pc        |-> "idle",
     file      |-> 0,
     extension |-> <<>>,
     dataType  |-> "",
     outcome   |-> NoOutcome,
     envelope  |-> NoEnvelope,
     error     |-> ""]

\* the constructor: detectedType = null, metadata = {}, rawData = null
AdapterInit ==
    /\ calls = [c \in Calls |-> IdleCall]
    /\ detectedType = "null"
    /\ heap = << <<>> >>
    /\ metadata = 1
    /\ rawData = NoData
    /\ now = 0

\* the locals of a handleFiles invocation that has not been made
IdleHandler ==
    [pc           |-> "idle",
     suggestedViz |-> "",
     vizError     |-> "",
     status       |-> ""]

\* the constructors of main.js and VisualizationEngine.js: currentData and
\* currentFile are null, the engine has no visualization and no animation
\* frame; the playback fields, which initAudioPlayback assigns, are still
\* undefined (false, 0 and the null source 0 stand for undefined); the page
\* has no audio source, no callback pending, no decode under way, no frame
\* requested and no audio transport controls
AppInit ==
    /\ app = [currentFile  |-> 0,
              currentData  |-> NoEnvelope,
              audioContext |-> FALSE,
              audioBuffer  |-> FALSE,
              audioSource  |-> 0,
              isPlaying    |-> FALSE,
              startTime    |-> 0,
              pauseTime    |-> 0,
              audioDecoded |-> FALSE]
    /\ vizEngine = [currentViz |-> "null", animationId |-> FALSE]
    /\ handlers = [c \in Calls |-> IdleHandler]
    /\ browser = [currentTime |-> 0,
                  sources     |-> 0,
                  playing     |-> {},
                  ended       |-> {},
                  decoding    |-> <<>>,
                  buffer      |-> 0,
                  rendering   |-> FALSE,
                  audioControls |-> FALSE]

\* the pure part of loadFile on each file of the table: what
\* getFileExtension, detectDataType and the selected decoder compute from it
Loading ==
    [f \in Files |->
        LET file      == FileTable[f]
            extension == getFileExtension(file.name)
            dataType  == detectDataType(extension, file)
        IN  [extension |-> extension,
             dataType  |-> dataType,
             decodable |-> Decodable(dataType, extension),
             awaits    |-> AwaitsBytes(dataType, extension),
             fresh     |-> NewMetadata(file, extension, dataType),
             outcome   |-> IF Decodable(dataType, extension)
                           THEN Decode(dataType, extension, file)
                           ELSE NoOutcome]]

\* loadFile(file) up to its first suspension: the extension and the type are
\* computed, this.detectedType and a fresh this.metadata are assigned, and the
\* selected decoder runs until it awaits the file's bytes or settles
StartWith(c, f, l, outcome) ==
    /\ calls[c].pc = "idle"
    /\ \A b \in 1..(c - 1) : calls[b].pc # "idle"
    /\ l.decodable
    /\ detectedType' = l.dataType
    /\ heap' = Append(heap, ApplyWrites(l.fresh, outcome.writes))
    /\ metadata' = Len(heap) + 1
    /\ calls' = [calls EXCEPT ![c] =
            [@ EXCEPT !.pc        = IF l.awaits THEN "io" ELSE "settled",
                      !.file      = f,
                      !.extension = l.extension,
                      !.dataType  = l.dataType,
                      !.outcome   = outcome]]
    /\ UNCHANGED <<rawData, now, arg, ret>>

Start(c, f) ==
    StartWith(c, f, Loading[f],
              IF Loading[f].awaits THEN NoOutcome ELSE Loading[f].outcome)

\* file.arrayBuffer() resolves: the decoder runs to its end, writing its
\* fields into whatever object this.metadata names now
BytesArriveWith(c, outcome) ==
    /\ calls[c].pc = "io"
    /\ heap' = [heap EXCEPT ![metadata] = ApplyWrites(@, outcome.writes)]
    /\ calls' = [calls EXCEPT ![c] =
            [@ EXCEPT !.pc = "settled", !.outcome = outcome]]
    /\ UNCHANGED <<detectedType, metadata, rawData, now, arg, ret,
                 appVars>>

BytesArrive(c) ==
    /\ calls[c].pc = "io"
    /\ BytesArriveWith(c, Loading[calls[c].file].outcome)

\* file.arrayBuffer() rejects: the decoder's promise rejects with that error
ReadFails(c) ==
    /\ calls[c].pc = "io"
    /\ calls' = [calls EXCEPT ![c] =
            [@ EXCEPT !.pc = "settled", !.outcome = Throw("NotReadableError")]]
    /\ UNCHANGED <<detectedType, metadata, heap, rawData, now, arg, ret,
                 appVars>>

\* loadFile with a try / catch around the switch that logs the error and goes
\* on to standardizeData
ResumeSwallowingErrors(call) ==
    [call EXCEPT !.pc = "returned",
                 !.envelope = standardizeData(call.outcome.value)]

\* what loadFile does once the awaited decoder has settled: a rejection
\* propagates (there is no try / catch); a value is stored in this.rawData
\* and returned through standardizeData
Resume(call) ==
    IF call.outcome.threw
    THEN [call EXCEPT !.pc = "rejected", !.error = call.outcome.error]
    ELSE [call EXCEPT !.pc = "returned",
                      !.envelope = standardizeData(call.outcome.value)]

Finish(c) ==
    /\ calls[c].pc = "settled"
    /\ calls' = [calls EXCEPT ![c] = Resume(@)]
    /\ rawData' = IF calls[c].outcome.threw THEN rawData
                  ELSE calls[c].outcome.value
    /\ UNCHANGED <<detectedType, metadata, heap, now, arg, ret,
                 appVars>>

\* time passes
Tick ==
    /\ now < MaxTime
    /\ now' = now + 1
    /\ UNCHANGED <<calls, detectedType, metadata, heap, rawData, arg, ret,
                 appVars>>

Init ==
    /\ AdapterInit
    /\ AppInit
    /\ arg = NoData
    /\ ret = NoData

Next ==
    \/ \E c \in Calls, f \in Files : Start(c, f) /\ UNCHANGED appVars
    \/ \E c \in Calls : BytesArrive(c)
    \/ \E c \in Calls : ReadFails(c)
    \/ \E c \in Calls : Finish(c)
    \/ Tick

Spec == Init /\ [][Next]_vars

-----------------------------------------------------------------------------
(* The classifier on its own: getFileExtension, then detectDataType *)

\* the parts a file name is made of.  Last parts: every one-part extension
\* of the table without its dot, some in capitals, and parts the table does not
\* list
LastParts ==
    {p \in UNION {{Tail(supportedFormats[k].extensions[i]) :
                     i \in 1..Len(supportedFormats[k].extensions)} :
                  k \in 1..Len(supportedFormats)} : ~includes(p, ".")}
    \cup {<<>>, <<"g","z">>, <<"G","Z">>, <<"E","D","F">>, <<"C","s","v">>,
          <<"m","p","e","g">>, <<"z">>}

FirstParts == {<<>>, <<"a">>, <<"n","i","i">>, <<"N","I","I">>, <<"c","s","v">>}

\* the names of n parts joined by dots
RECURSIVE NamesOf(_)
NamesOf(n) ==
    IF n = 1 THEN LastParts
    ELSE {p \o <<".">> \o rest : p \in FirstParts, rest \in NamesOf(n - 1)}

FileNames == UNION {NamesOf(n) : n \in 1..MaxParts}

MimeTypes ==
    {<<>>,
     <<"a","u","d","i","o","/","m","p","e","g">>,
     <<"i","m","a","g","e","/","p","n","g">>,
     <<"v","i","d","e","o","/","m","p","4">>,
     <<"t","e","x","t","/","c","s","v">>,
     <<"a","u","d","i","o">>}

ClassifyInputs ==
    [type : {"classify"}, name : FileNames, mime : MimeTypes, other : MimeTypes]

InitClassify ==
    /\ AdapterInit
    /\ AppInit
    /\ arg \in ClassifyInputs
    /\ ret = NoData

\* the first two statements of loadFile, on a file named arg.name of MIME type
\* arg.mime and on a second file of the same name and MIME type arg.other
Classify ==
    /\ arg.type = "classify"
    /\ ret = NoData
    /\ ret' = [type      |-> "classified",
               extension |-> getFileExtension(arg.name),
               dataType  |-> detectDataType(getFileExtension(arg.name),
                                            [type |-> arg.mime]),
               dataTypeOther |-> detectDataType(getFileExtension(arg.name),
                                                [type |-> arg.other])]
    /\ UNCHANGED <<adapterVars, appVars, arg>>

NextClassify == Classify

SpecClassify == InitClassify /\ [][NextClassify]_vars

-----------------------------------------------------------------------------
(* parseEDF on its own *)

\* a numeric header field: its text, whether the text is a number in digits,
\* and the number n/d it then denotes
Field(text, ok, n, d) == [text |-> text, ok |-> ok, n |-> n, d |-> d]

HeaderBytesFields ==
    {Field(<<"7","6","8">>, TRUE, 768, 1), Field(<<"a","b","c">>, FALSE, 0, 1)}

NumRecordsFields ==
    {Field(<<"1","0">>, TRUE, 10, 1), Field(<<"3">>, TRUE, 3, 1),
     Field(<<"x","1">>, FALSE, 0, 1), Field(<<"7","y">>, FALSE, 0, 1)}

RecordDurationFields ==
    {Field(<<"1">>, TRUE, 1, 1), Field(<<"0",".","5">>, TRUE, 1, 2),
     Field(<<"0">>, TRUE, 0, 1), Field(<<"a","b","c">>, FALSE, 0, 1)}

NumSignalsFields ==
    {Field(<<DecDigits[n + 1]>>, TRUE, n, 1) : n \in 0..MaxSignals}
    \cup {Field(<<"a","b">>, FALSE, 0, 1)}

NumSamplesFields ==
    {Field(<<"2","5","6">>, TRUE, 256, 1), Field(<<"1","0","0">>, TRUE, 100, 1),
     Field(<<"z","z">>, FALSE, 0, 1)}

SignalLists ==
    UNION {[1..n -> NumSamplesFields] : n \in 0..MaxSignals}

EDFInputs ==
    [type           : {"edf"},
     headerBytes    : HeaderBytesFields,
     numRecords     : NumRecordsFields,
     recordDuration : RecordDurationFields,
     numSignals     : NumSignalsFields,
     numSamples     : SignalLists]

\* the file the input describes
EDFContent(in) ==
    [kind           |-> "edf",
     headerBytes    |-> in.headerBytes.text,
     numRecords     |-> in.numRecords.text,
     recordDuration |-> in.recordDuration.text,
     numSignals     |-> in.numSignals.text,
     signals        |-> [i \in 1..Len(in.numSamples) |->
                            [label      |-> <<"C","h",DecDigits[i + 1]>>,
                             numSamples |-> in.numSamples[i].text]]]

InitEDF ==
    /\ AdapterInit
    /\ AppInit
    /\ arg \in EDFInputs
    /\ ret = NoData

Decoded(outcome) ==
    [type     |-> "decoded",
     outcome  |-> outcome,
     metadata |-> ApplyWrites(<<>>, outcome.writes)]

\* parseEDF on the file, with a fresh this.metadata to write to
DecodeEDF ==
    /\ arg.type = "edf"
    /\ ret = NoData
    /\ ret' = Decoded(parseEDF(EDFContent(arg)))
    /\ UNCHANGED <<adapterVars, appVars, arg>>

NextEDF == DecodeEDF

SpecEDF == InitEDF /\ [][NextEDF]_vars

-----------------------------------------------------------------------------
(* DataView reads on the binary formats (NIfTI-1 header, binary STL) *)

\* a little-endian unsigned 16- or 32-bit value from its bytes
LE16(b0, b1) == b0 + 256 * b1

LE32(b0, b1, b2, b3) == b0 + 256 * b1 + 65536 * b2 + 16777216 * b3

\* two's complement reading of a byte
SignedByte(b) == IF b >= 128 THEN b - 256 ELSE b

\* byte pos of a NIfTI-1 header: sizeof_hdr at 0, dim[8] at 40, datatype at
\* 70, bitpix at 72 (the float fields are read by NIfTIFloat)
NIfTIByte(c, pos) ==
    CASE pos >= 0 /\ pos < 4 -> c.sizeofHdr[pos + 1]
      [] pos >= 40 /\ pos < 56 ->
            IF (pos - 40) % 2 = 0 THEN c.dim[((pos - 40) \div 2) + 1] % 256
            ELSE c.dim[((pos - 40) \div 2) + 1] \div 256
      [] pos = 70 -> c.datatype % 256
      [] pos = 71 -> c.datatype \div 256
      [] pos = 72 -> c.bitpix % 256
      [] pos = 73 -> c.bitpix \div 256
      [] OTHER -> 0

\* the float stored at offset of a NIfTI-1 header: pixdim[8] at 76,
\* vox_offset at 108, scl_slope at 112, scl_inter at 116
NIfTIFloat(c, offset) ==
    CASE offset >= 76 /\ offset < 108 /\ (offset - 76) % 4 = 0 ->
            c.pixdim[((offset - 76) \div 4) + 1]
      [] offset = 108 -> c.voxOffset
      [] offset = 112 -> Num(1)
      [] offset = 116 -> Num(0)
      [] OTHER -> Num(0)

\* byte pos of a binary STL buffer: the triangle count at 80 (the floats are
\* read by STLFloat)
STLByte(c, pos) ==
    IF pos >= 80 /\ pos < 84 THEN c.count[pos - 79] ELSE 0

\* the float stored at offset of a binary STL buffer: 50 bytes per triangle
\* from 84 on, twelve floats (normal, three vertices) and two attribute
\* bytes; past the triangles the buffer holds zeros
STLFloat(c, offset) ==
    IF offset < 84 THEN Num(0)
    ELSE IF ((offset - 84) \div 50) + 1 > Len(c.triangles) THEN Num(0)
    ELSE IF (offset - 84) % 50 >= 48 \/ ((offset - 84) % 50) % 4 # 0
         THEN Num(0)
    ELSE c.triangles[((offset - 84) \div 50) + 1][(((offset - 84) % 50) \div 4) + 1]

BinByte(c, pos) ==
    IF c.kind = "nifti" THEN NIfTIByte(c, pos) ELSE STLByte(c, pos)

BinFloat(c, offset) ==
    IF c.kind = "nifti" THEN NIfTIFloat(c, offset) ELSE STLFloat(c, offset)

\* a DataView read of size bytes at offset throws a RangeError unless the
\* whole range lies inside the buffer
RangeOK(c, offset, size) == offset >= 0 /\ offset + size <= ByteLength(c)

Read(threw, value) == [threw |-> threw, value |-> value]

\* dataView.getInt32(offset, true)
getInt32(c, offset) ==
    IF ~RangeOK(c, offset, 4) THEN Read(TRUE, NaN)
    ELSE Read(FALSE,
              Num(LE32(BinByte(c, offset), BinByte(c, offset + 1),
                       BinByte(c, offset + 2),
                       SignedByte(BinByte(c, offset + 3)))))

\* dataView.getUint32(offset, true) (for counts below 2^31)
getUint32(c, offset) ==
    IF ~RangeOK(c, offset, 4) THEN Read(TRUE, NaN)
    ELSE Read(FALSE,
              Num(LE32(BinByte(c, offset), BinByte(c, offset + 1),
                       BinByte(c, offset + 2), BinByte(c, offset + 3))))

\* dataView.getInt16(offset, true)
getInt16(c, offset) ==
    IF ~RangeOK(c, offset, 2) THEN Read(TRUE, NaN)
    ELSE Read(FALSE,
              Num(LE16(BinByte(c, offset), SignedByte(BinByte(c, offset + 1)))))

\* dataView.getFloat32(offset, true)
getFloat32(c, offset) ==
    IF ~RangeOK(c, offset, 4) THEN Read(TRUE, NaN)
    ELSE Read(FALSE, BinFloat(c, offset))

\* the values of a sequence of reads
ReadValues(r) == [i \in 1..Len(r) |-> r[i].value]

\* Math.floor
Floor(x) == IF x.k = "fin" THEN Num(x.n \div x.d) ELSE x

-----------------------------------------------------------------------------
(* parseNIfTI *)

\* the reads of the header literal, in the order the code makes them
NIfTIHeaderReads(c) ==
    <<getInt32(c, 0)>>
    \o [i \in 1..8 |-> getInt16(c, 40 + (i - 1) * 2)]
    \o <<getInt16(c, 70), getInt16(c, 72)>>
    \o [i \in 1..8 |-> getFloat32(c, 76 + (i - 1) * 4)]
    \o <<getFloat32(c, 108), getFloat32(c, 112), getFloat32(c, 116)>>

\* the header object from the values read
NIfTIHeader(v) ==
    [sizeofHdr |-> v[1],
     dim       |-> SubSeq(v, 2, 9),
     datatype  |-> v[10],
     bitpix    |-> v[11],
     pixdim    |-> SubSeq(v, 12, 19),
     voxOffset |-> v[20],
     sclSlope  |-> v[21],
     sclInter  |-> v[22]]

\* the metadata writes and the object parseNIfTI returns
NIfTIResult(header) ==
    Return([type       |-> "neuroimaging",
            format     |-> "nifti",
            header     |-> header,
            dataOffset |-> Floor(header.voxOffset),
            dimensions |-> SubSeq(header.dim, 2, 4),
            voxelSize  |-> SubSeq(header.pixdim, 2, 4)],
           << <<"dimensions", SubSeq(header.dim, 2, 4)>>,
              <<"voxelSize", SubSeq(header.pixdim, 2, 4)>> >>)

NIfTIAfterReads(r) ==
    IF AnyThrew(r) THEN Throw("RangeError")
    ELSE NIfTIResult(NIfTIHeader(ReadValues(r)))

\* parseNIfTI(file), after file.arrayBuffer() resolves
parseNIfTI(c) == NIfTIAfterReads(NIfTIHeaderReads(c))

-----------------------------------------------------------------------------
(* parseSTLBinary *)

\* the three floats at offset
ReadVec3(c, offset) ==
    <<getFloat32(c, offset), getFloat32(c, offset + 4),
      getFloat32(c, offset + 8)>>

\* the reads of one pass of the triangle loop: the normal, then three
\* vertices
STLTriangleReads(c, offset) ==
    <<ReadVec3(c, offset), ReadVec3(c, offset + 12),
      ReadVec3(c, offset + 24), ReadVec3(c, offset + 36)>>

\* normals.push(normal) in one pass of the loop, once only
STLNormalsOnce(normal) == <<normal>>

\* normals.push(normal) in the three passes of the inner loop
STLNormals(normal) == <<normal, normal, normal>>

RECURSIVE STLBinaryLoop(_, _, _, _, _, _)
RECURSIVE STLBinaryPush(_, _, _, _, _, _, _)
\* one pass of the loop for (let i = 0; i < triangleCount; i++) after its
\* reads r
STLBinaryPush(c, i, triangleCount, offset, vertices, normals, r) ==
    IF \E k \in 1..4 : AnyThrew(r[k])
    THEN [threw |-> TRUE, vertices |-> vertices, normals |-> normals]
    ELSE STLBinaryLoop(c, i + 1, triangleCount, offset + 50,
                       vertices \o <<ReadValues(r[2]), ReadValues(r[3]),
                                     ReadValues(r[4])>>,
                       normals \o STLNormals(ReadValues(r[1])))

STLBinaryLoop(c, i, triangleCount, offset, vertices, normals) ==
    IF i >= triangleCount
    THEN [threw |-> FALSE, vertices |-> vertices, normals |-> normals]
    ELSE STLBinaryPush(c, i, triangleCount, offset, vertices, normals,
                       STLTriangleReads(c, offset))

\* the metadata writes and the object parseSTLBinary returns
STLBinaryResult(triangleCount, loop) ==
    IF loop.threw THEN Throw("RangeError")
    ELSE Return([type          |-> "mesh3d",
                 format        |-> "stl",
                 vertices      |-> loop.vertices,
                 normals       |-> loop.normals,
                 triangleCount |-> triangleCount],
                << <<"vertexCount", Num(Len(loop.vertices))>>,
                   <<"triangleCount", triangleCount>> >>)

STLBinaryAfterCount(c, count) ==
    IF count.threw THEN Throw("RangeError")
    ELSE STLBinaryResult(count.value,
                         STLBinaryLoop(c, 0, count.value.n, 84, <<>>, <<>>))

\* parseSTLBinary(arrayBuffer)
parseSTLBinary(c) == STLBinaryAfterCount(c, getUint32(c, 80))

-----------------------------------------------------------------------------
(* Text: file.text() is a sequence of characters *)

\* String.prototype.split(sep) for a one-character separator: the parts
\* between the separators, empty parts kept
RECURSIVE SplitChar(_, _, _, _)
SplitChar(s, i, cur, sep) ==
    IF i > Len(s) THEN <<cur>>
    ELSE IF s[i] = sep THEN <<cur>> \o SplitChar(s, i + 1, <<>>, sep)
    ELSE SplitChar(s, i + 1, Append(cur, s[i]), sep)

splitOn(s, sep) == SplitChar(s, 1, <<>>, sep)

\* String.prototype.split(/\s+/): the parts between the runs of white space
\* (an empty first or last part when s starts or ends with white space)
RECURSIVE SplitSpace(_, _, _)
SplitSpace(s, i, cur) ==
    IF i > Len(s) THEN <<cur>>
    ELSE IF s[i] \in WhiteSpace
         THEN <<cur>> \o SplitSpace(s, SkipWhite(s, i), <<>>)
    ELSE SplitSpace(s, i + 1, Append(cur, s[i]))

splitWhite(s) == SplitSpace(s, 1, <<>>)

\* Array.prototype.filter(line => line.trim()): the lines that are not blank
RECURSIVE filterNonBlank(_)
filterNonBlank(lines) ==
    IF lines = <<>> THEN <<>>
    ELSE IF trim(lines[1]) = <<>> THEN filterNonBlank(Tail(lines))
    ELSE <<lines[1]>> \o filterNonBlank(Tail(lines))

\* values of JavaScript that are not numbers
Null == [k |-> "null", n |-> 0, d |-> 1]

Undefined == [k |-> "undefined", n |-> 0, d |-> 1]

\* parts[k] of an array (k from 0): undefined past its end
At(parts, k) == IF k + 1 <= Len(parts) THEN parts[k + 1] ELSE Undefined

\* parseFloat(parts[k]): NaN for the undefined past the end of the array
parseFloatAt(parts, k) ==
    IF k + 1 <= Len(parts) THEN parseFloat(parts[k + 1]) ELSE NaN

\* x - 1 on numbers
MinusOne(x) == IF x.k = "fin" THEN Fin(x.n - x.d, x.d) ELSE x

\* the lines of a text joined by line feeds
RECURSIVE Join(_)
Join(lines) ==
    IF lines = <<>> THEN <<>>
    ELSE IF Len(lines) = 1 THEN lines[1]
    ELSE lines[1] \o <<"\n">> \o Join(Tail(lines))

\* the sequences of at most n elements of S
SeqsUpTo(S, n) == UNION {[1..m -> S] : m \in 0..n}

-----------------------------------------------------------------------------
(* parseOBJ *)

\* parts[i] of an f line: { v, vt, vn }, each index less one, vt and vn null
\* when the group does not give them
OBJFaceVertex(indices) ==
    [v  |-> MinusOne(parseInt(indices[1])),
     vt |-> IF Len(indices) >= 2 /\ indices[2] # <<>>
            THEN MinusOne(parseInt(indices[2])) ELSE Null,
     vn |-> IF Len(indices) >= 3 /\ indices[3] # <<>>
            THEN MinusOne(parseInt(indices[3])) ELSE Null]

\* the face of an f line: one entry for each part after the first
OBJFace(parts) ==
    [i \in 1..(Len(parts) - 1) |-> OBJFaceVertex(splitOn(parts[i + 1], "/"))]

\* the three floats of a v or vn line
OBJVec3(parts) ==
    <<parseFloatAt(parts, 1), parseFloatAt(parts, 2), parseFloatAt(parts, 3)>>

OBJVec2(parts) == <<parseFloatAt(parts, 1), parseFloatAt(parts, 2)>>

\* the body of the loop over the lines, on the parts of one line
OBJLine(mesh, parts) ==
    CASE parts[1] = <<"v">> ->
            [mesh EXCEPT !.vertices = Append(@, OBJVec3(parts))]
      [] parts[1] = <<"v","n">> ->
            [mesh EXCEPT !.normals = Append(@, OBJVec3(parts))]
      [] parts[1] = <<"v","t">> ->
            [mesh EXCEPT !.texcoords = Append(@, OBJVec2(parts))]
      [] parts[1] = <<"f">> ->
            [mesh EXCEPT !.faces = Append(@, OBJFace(parts))]
      [] OTHER -> mesh

\* for (const line of lines) { ... }
RECURSIVE OBJLines(_, _, _)
OBJLines(lines, i, mesh) ==
    IF i > Len(lines) THEN mesh
    ELSE OBJLines(lines, i + 1, OBJLine(mesh, splitWhite(trim(lines[i]))))

\* the metadata writes and the object parseOBJ returns
OBJResult(mesh) ==
    Return([type      |-> "mesh3d",
            format    |-> "obj",
            vertices  |-> mesh.vertices,
            normals   |-> mesh.normals,
            texcoords |-> mesh.texcoords,
            faces     |-> mesh.faces],
           << <<"vertexCount", Num(Len(mesh.vertices))>>,
              <<"faceCount", Num(Len(mesh.faces))>> >>)

\* parseOBJ(file), after file.text() resolves to text
parseOBJ(text) ==
    OBJResult(OBJLines(splitOn(text, "\n"), 1,
                       [vertices |-> <<>>, normals |-> <<>>,
                        texcoords |-> <<>>, faces |-> <<>>]))

-----------------------------------------------------------------------------
(* parseSTL and parseSTLAscii *)

\* currentNormal = null: no facet normal line read yet
NoNormal == <<>>

\* the three floats after the first skip parts of a line
STLVec3(parts, skip) ==
    <<parseFloatAt(parts, skip), parseFloatAt(parts, skip + 1),
      parseFloatAt(parts, skip + 2)>>

\* the body of the loop over the lines, on one trimmed lower-case line
STLAsciiLine(st, trimmed) ==
    IF startsWith(trimmed, <<"f","a","c","e","t"," ","n","o","r","m","a","l">>)
    THEN [st EXCEPT !.currentNormal = STLVec3(splitWhite(trimmed), 2)]
    ELSE IF startsWith(trimmed, <<"v","e","r","t","e","x">>)
    THEN [st EXCEPT !.vertices = Append(@, STLVec3(splitWhite(trimmed), 1)),
                    !.normals = Append(@, st.currentNormal)]
    ELSE st

\* for (const line of lines) { ... }
RECURSIVE STLAsciiLines(_, _, _)
STLAsciiLines(lines, i, st) ==
    IF i > Len(lines) THEN st
    ELSE STLAsciiLines(lines, i + 1,
                       STLAsciiLine(st, toLowerCase(trim(lines[i]))))

\* the metadata writes and the object parseSTLAscii returns
STLAsciiResult(st) ==
    Return([type          |-> "mesh3d",
            format        |-> "stl",
            vertices      |-> st.vertices,
            normals       |-> st.normals,
            triangleCount |-> Divide(Num(Len(st.vertices)), Num(3))],
           << <<"vertexCount", Num(Len(st.vertices))>>,
              <<"triangleCount", Divide(Num(Len(st.vertices)), Num(3))>> >>)

\* parseSTLAscii(text)
parseSTLAscii(text) ==
    STLAsciiResult(STLAsciiLines(splitOn(text, "\n"), 1,
                                 [currentNormal |-> NoNormal,
                                  vertices |-> <<>>, normals |-> <<>>]))

\* text.toLowerCase().startsWith('solid')
STLIsAscii(text) == startsWith(toLowerCase(text), <<"s","o","l","i","d">>)

\* parseSTL(file): c.text is what file.text() resolves to, c itself the
\* buffer file.arrayBuffer() resolves to
parseSTL(c) ==
    IF STLIsAscii(c.text) THEN parseSTLAscii(c.text) ELSE parseSTLBinary(c)

-----------------------------------------------------------------------------
(* parseXYZ and parsePCD *)

\* Array.prototype.map(parseFloat) on the parts of a line
mapParseFloat(parts) == [i \in 1..Len(parts) |-> parseFloat(parts[i])]

\* the body of the loop of parseXYZ, on the numbers of one line
XYZLine(cloud, parts) ==
    IF Len(parts) >= 3
    THEN [points |-> Append(cloud.points, <<parts[1], parts[2], parts[3]>>),
          colors |-> IF Len(parts) >= 6
                     THEN Append(cloud.colors, <<parts[4], parts[5], parts[6]>>)
                     ELSE cloud.colors]
    ELSE cloud

\* for (const line of lines) { ... }
RECURSIVE XYZLines(_, _, _)
XYZLines(lines, i, cloud) ==
    IF i > Len(lines) THEN cloud
    ELSE XYZLines(lines, i + 1,
                  XYZLine(cloud, mapParseFloat(splitWhite(trim(lines[i])))))

\* the metadata writes and the object parseXYZ returns; colors is null when
\* colorsIsNull
XYZResult(cloud) ==
    Return([type         |-> "pointcloud",
            format       |-> "xyz",
            points       |-> cloud.points,
            colors       |-> cloud.colors,
            colorsIsNull |-> ~(Len(cloud.colors) > 0),
            pointCount   |-> Num(Len(cloud.points))],
           << <<"pointCount", Num(Len(cloud.points))>>,
              <<"hasColors", Len(cloud.colors) > 0>> >>)

\* parseXYZ(file), after file.text() resolves to text
parseXYZ(text) ==
    XYZResult(XYZLines(filterNonBlank(splitOn(text, "\n")), 1,
                       [points |-> <<>>, colors |-> <<>>]))

\* parseInt(parts[k]): NaN for the undefined past the end of the array
parseIntAt(parts, k) ==
    IF k + 1 <= Len(parts) THEN parseInt(parts[k + 1]) ELSE NaN

\* the header loop of parsePCD from line i (from 0) on: FIELDS, POINTS, and
\* DATA, which ends it
RECURSIVE PCDHeader(_, _, _)
PCDHeaderLine(lines, i, h, line) ==
    IF startsWith(line, <<"F","I","E","L","D","S">>)
    THEN PCDHeader(lines, i + 1, [h EXCEPT !.fields = Tail(splitWhite(line))])
    ELSE IF startsWith(line, <<"P","O","I","N","T","S">>)
    THEN PCDHeader(lines, i + 1,
                   [h EXCEPT !.pointCount = parseIntAt(splitWhite(line), 1)])
    ELSE IF startsWith(line, <<"D","A","T","A">>)
    THEN [h EXCEPT !.dataStart = i + 1]
    ELSE PCDHeader(lines, i + 1, h)

PCDHeader(lines, i, h) ==
    IF i >= Len(lines) THEN h
    ELSE PCDHeaderLine(lines, i, h, trim(lines[i + 1]))

\* the body of the data loop of parsePCD, on the numbers of one line
PCDRow(cloud, fields, parts) ==
    IF Len(parts) >= 3
    THEN [points |-> Append(cloud.points, <<parts[1], parts[2], parts[3]>>),
          colors |-> IF includes(fields, <<"r","g","b">>) /\ Len(parts) >= 4
                     THEN Append(cloud.colors,
                                 <<At(parts, 3), At(parts, 4), At(parts, 5)>>)
                     ELSE cloud.colors]
    ELSE cloud

\* for (let i = 0; i < pointCount && (dataStart + i) < lines.length; i++)
RECURSIVE PCDRows(_, _, _, _)
PCDRows(lines, h, i, cloud) ==
    IF LessThan(Num(i), h.pointCount) /\ h.dataStart + i < Len(lines)
    THEN PCDRows(lines, h, i + 1,
                 PCDRow(cloud, h.fields,
                        mapParseFloat(splitWhite(trim(lines[h.dataStart + i + 1])))))
    ELSE cloud

\* pointCount of the result, were it the count the header declares
PCDPointCountDeclared(points, declared) == declared

\* pointCount of the result: points.length
PCDPointCount(points, declared) == Num(Len(points))

\* the metadata writes and the object parsePCD returns; colors is null when
\* colorsIsNull
PCDResult(h, cloud) ==
    Return([type         |-> "pointcloud",
            format       |-> "pcd",
            points       |-> cloud.points,
            colors       |-> cloud.colors,
            colorsIsNull |-> ~(Len(cloud.colors) > 0),
            fields       |-> h.fields,
            pointCount   |-> PCDPointCount(cloud.points, h.pointCount)],
           << <<"pointCount", PCDPointCount(cloud.points, h.pointCount)>>,
              <<"hasColors", Len(cloud.colors) > 0>> >>)

PCDAfterHeader(lines, h) ==
    PCDResult(h, PCDRows(lines, h, 0, [points |-> <<>>, colors |-> <<>>]))

PCDAfterSplit(lines) ==
    PCDAfterHeader(lines, PCDHeader(lines, 0,
                                    [pointCount |-> Num(0), dataStart |-> 0,
                                     fields |-> <<>>]))

\* parsePCD(file), after file.text() resolves to text
parsePCD(text) == PCDAfterSplit(splitOn(text, "\n"))

-----------------------------------------------------------------------------
(* parseCSVasEEG *)

\* the decimal digits of a natural number, as String(n) writes them
RECURSIVE ToDigits(_)
ToDigits(n) ==
    IF n < 10 THEN <<DecDigits[n + 1]>>
    ELSE Append(ToDigits(n \div 10), DecDigits[(n % 10) + 1])

\* a / d rounded to the nearest integer, ties to even
RoundHalfEven(a, d) ==
    IF 2 * (a % d) > d THEN (a \div d) + 1
    ELSE IF 2 * (a % d) < d THEN a \div d
    ELSE IF (a \div d) % 2 = 0 THEN a \div d
    ELSE (a \div d) + 1

\* the float32 nearest to a / d > 0: a 24-bit mantissa over the power of
\* two p (for 1/128 <= a / d < 2^24 with d < 128)
RECURSIVE F32Mantissa(_, _, _)
F32Mantissa(a, d, p) ==
    IF a >= 8388608 * d THEN Fin(RoundHalfEven(a, d), p)
    ELSE F32Mantissa(2 * a, d, 2 * p)

\* the element of a Float32Array that stores the number x
Float32(x) ==
    IF x.k # "fin" \/ x.n = 0 THEN x
    ELSE IF x.n < 0 THEN Negate(F32Mantissa(-x.n, x.d, 1))
    ELSE F32Mantissa(x.n, x.d, 1)

\* new Float32Array(ch)
Float32Array(ch) == [i \in 1..Len(ch) |-> Float32(ch[i])]

\* text.includes('\t') ? '\t' : ','
CSVDelimiter(text) == IF includes(text, "\t") THEN "\t" ELSE ","

\* isNaN(parseFloat(firstLine[0])), taken as always false
CSVHasHeaderNever(firstLine) == FALSE

\* isNaN(parseFloat(firstLine[0]))
CSVHasHeader(firstLine) == isNaN(parseFloat(firstLine[1]))

\* firstLine.map((_, i) => `Ch${i + 1}`)
CSVSyntheticNames(firstLine) ==
    [i \in 1..Len(firstLine) |-> <<"C","h">> \o ToDigits(i)]

\* values.forEach((val, i) => { if (!isNaN(val) && i < numChannels)
\* channels[i].push(val) }) from value i (from 1) on
RECURSIVE CSVValues(_, _, _)
CSVValues(channels, values, i) ==
    IF i > Len(values) THEN channels
    ELSE IF ~isNaN(values[i]) /\ i <= Len(channels)
         THEN CSVValues([channels EXCEPT ![i] = Append(@, values[i])],
                        values, i + 1)
    ELSE CSVValues(channels, values, i + 1)

\* dataLines.forEach(line => { ... }) from line i on
RECURSIVE CSVDataLines(_, _, _, _)
CSVDataLines(dataLines, delimiter, i, channels) ==
    IF i > Len(dataLines) THEN channels
    ELSE CSVDataLines(dataLines, delimiter, i + 1,
                      CSVValues(channels,
                                mapParseFloat(splitOn(dataLines[i], delimiter)),
                                1))

\* the metadata writes and the object parseCSVasEEG returns
CSVResult(channelNames, channels) ==
    Return([type         |-> "eeg",
            channels     |-> [i \in 1..Len(channels) |->
                                 Float32Array(channels[i])],
            channelNames |-> channelNames,
            sampleRate   |-> Num(250),
            samples      |-> Num(Len(channels[1]))],
           << <<"channels", Num(Len(channelNames))>>,
              <<"samples", Num(Len(channels[1]))>>,
              <<"channelNames", channelNames>> >>)

CSVAfterNames(channelNames, dataLines, delimiter) ==
    CSVResult(channelNames,
              CSVDataLines(dataLines, delimiter, 1,
                           [i \in 1..Len(channelNames) |-> <<>>]))

CSVAfterHeader(lines, delimiter, firstLine, hasHeader) ==
    CSVAfterNames(IF hasHeader THEN firstLine ELSE CSVSyntheticNames(firstLine),
                  IF hasHeader THEN Tail(lines) ELSE lines,
                  delimiter)

CSVAfterFirstLine(lines, delimiter, firstLine) ==
    CSVAfterHeader(lines, delimiter, firstLine, CSVHasHeader(firstLine))

\* lines[0].split(delimiter) throws a TypeError when there is no line
CSVAfterSplit(lines, delimiter) ==
    IF lines = <<>> THEN Throw("TypeError")
    ELSE CSVAfterFirstLine(lines, delimiter, splitOn(lines[1], delimiter))

\* parseCSVasEEG(file), after file.text() resolves to text
parseCSVasEEG(text) ==
    CSVAfterSplit(filterNonBlank(splitOn(text, "\n")), CSVDelimiter(text))

-----------------------------------------------------------------------------
(* parsePLY *)

\* the header loop of parsePLY from line i (from 0) on: format, element
\* vertex, element face, and end_header, which ends the loop
RECURSIVE PLYHeader(_, _, _)
PLYHeaderLine(lines, i, h, line) ==
    IF startsWith(line, <<"f","o","r","m","a","t">>)
    THEN PLYHeader(lines, i + 1,
                   [h EXCEPT !.format = At(splitWhite(line), 1)])
    ELSE IF startsWith(line, <<"e","l","e","m","e","n","t"," ","v","e","r","t","e","x">>)
    THEN PLYHeader(lines, i + 1,
                   [h EXCEPT !.vertexCount = parseIntAt(splitWhite(line), 2)])
    ELSE IF startsWith(line, <<"e","l","e","m","e","n","t"," ","f","a","c","e">>)
    THEN PLYHeader(lines, i + 1,
                   [h EXCEPT !.faceCount = parseIntAt(splitWhite(line), 2)])
    ELSE IF line = <<"e","n","d","_","h","e","a","d","e","r">>
    THEN [h EXCEPT !.headerEnd = i + 1]
    ELSE PLYHeader(lines, i + 1, h)

PLYHeader(lines, i, h) ==
    IF i >= Len(lines) THEN h
    ELSE PLYHeaderLine(lines, i, h, trim(lines[i + 1]))

\* lines[index] of the array of lines for a number index: undefined, on which
\* .trim() throws a TypeError, unless index is an integer inside the array
PLYHasLine(lines, index) ==
    index.k = "fin" /\ index.d = 1 /\ index.n >= 0 /\ index.n < Len(lines)

\* x + i on a number x and an integer i
PlusInt(x, i) == IF x.k = "fin" THEN Fin(x.n + i * x.d, x.d) ELSE x

\* [parseFloat(parts[0]), parseFloat(parts[1]), parseFloat(parts[2])]
PLYVertex(parts) ==
    <<parseFloatAt(parts, 0), parseFloatAt(parts, 1), parseFloatAt(parts, 2)>>

\* parts.slice(1).map(x => parseInt(x))
PLYFace(parts) == [k \in 1..(Len(parts) - 1) |-> parseInt(parts[k + 1])]

\* for (let i = 0; i < vertexCount; i++) { ... lines[headerEnd + i] ... }
RECURSIVE PLYVertices(_, _, _, _)
PLYVertices(lines, h, i, vertices) ==
    IF ~LessThan(Num(i), h.vertexCount)
    THEN [threw |-> FALSE, vertices |-> vertices]
    ELSE IF ~PLYHasLine(lines, Num(h.headerEnd + i))
    THEN [threw |-> TRUE, vertices |-> vertices]
    ELSE PLYVertices(lines, h, i + 1,
                     Append(vertices,
                            PLYVertex(splitWhite(trim(lines[h.headerEnd + i + 1])))))

\* for (let i = 0; i < faceCount; i++)
\*     { ... lines[headerEnd + vertexCount + i] ... }
RECURSIVE PLYFaces(_, _, _, _)
PLYFaces(lines, h, i, faces) ==
    IF ~LessThan(Num(i), h.faceCount)
    THEN [threw |-> FALSE, faces |-> faces]
    ELSE IF ~PLYHasLine(lines, PlusInt(h.vertexCount, h.headerEnd + i))
    THEN [threw |-> TRUE, faces |-> faces]
    ELSE PLYFaces(lines, h, i + 1,
                  Append(faces,
                         PLYFace(splitWhite(trim(
                             lines[h.headerEnd + h.vertexCount.n + i + 1])))))

\* the metadata writes and the object parsePLY returns
PLYResult(vertices, faces) ==
    Return([type     |-> "mesh3d",
            format   |-> "ply",
            vertices |-> vertices,
            faces    |-> faces],
           << <<"vertexCount", Num(Len(vertices))>>,
              <<"faceCount", Num(Len(faces))>> >>)

PLYAfterFaces(v, f) ==
    IF f.threw THEN Throw("TypeError") ELSE PLYResult(v.vertices, f.faces)

PLYAfterVertices(lines, h, v) ==
    IF v.threw THEN Throw("TypeError")
    ELSE PLYAfterFaces(v, PLYFaces(lines, h, 0, <<>>))

PLYAfterHeader(lines, h) ==
    PLYAfterVertices(lines, h, PLYVertices(lines, h, 0, <<>>))

\* parsePLY(file), after file.text() resolves to text; the format read from
\* the header is not looked at again
parsePLY(text) ==
    PLYAfterHeader(splitOn(text, "\n"),
                   PLYHeader(splitOn(text, "\n"), 0,
                             [format      |-> <<"a","s","c","i","i">>,
                              vertexCount |-> Num(0),
                              faceCount   |-> Num(0),
                              headerEnd   |-> 0]))

-----------------------------------------------------------------------------
(* The binary decoders on their own: parseEDF, parseNIfTI, parseSTLBinary *)

\* buffer lengths around the 120 bytes parseNIfTI reads and the 348 bytes of
\* a NIfTI-1 header
NIfTILengths == {0, 3, 100, 119, 120, 347, 348, 352}

\* sizeof_hdr as bytes: 348 little-endian, 348 big-endian, 540 (NIfTI-2), 0
\* and -1
SizeofHdrFields ==
    {<<92, 1, 0, 0>>, <<0, 0, 1, 92>>, <<28, 2, 0, 0>>, <<0, 0, 0, 0>>,
     <<255, 255, 255, 255>>}

DimFields == {<<3, 2, 2, 2, 1, 1, 1, 1>>, <<4, 64, 64, 32, 10, 1, 1, 1>>}

NIfTIInputs ==
    [type       : {"nifti"},
     byteLength : NIfTILengths,
     sizeofHdr  : SizeofHdrFields,
     dim        : DimFields,
     voxOffset  : {Num(352), Fin(705, 2)}]

\* the buffer the input describes
NIfTIContent(in) ==
    [kind       |-> "nifti",
     byteLength |-> in.byteLength,
     sizeofHdr  |-> in.sizeofHdr,
     dim        |-> in.dim,
     datatype   |-> 16,
     bitpix     |-> 32,
     pixdim     |-> <<Num(1), Num(2), Num(2), Fin(5, 2), Num(1), Num(0),
                      Num(0), Num(0)>>,
     voxOffset  |-> in.voxOffset]

\* two triangles as the twelve floats of their records: normal, then three
\* vertices
STLTriangles ==
    {<<Num(0), Num(0), Num(1),  Num(0), Num(0), Num(0),
       Num(1), Num(0), Num(0),  Num(0), Num(1), Num(0)>>,
     <<Num(1), Num(0), Num(0),  Num(0), Num(0), Num(0),
       Num(0), Num(1), Num(0),  Num(0), Num(0), Fin(5, 2)>>}

\* buffer lengths: short of the count field, the count field only, and for
\* k triangles the full 84 + 50k, two bytes less and a few bytes more
STLLengths ==
    {83, 84} \cup UNION {{84 + 50 * k - 2, 84 + 50 * k, 84 + 50 * k + 7} :
                          k \in 1..MaxTriangles}

\* the count field as bytes: 0 .. MaxTriangles + 1 little-endian, and the
\* big-endian 1 (2^24 when read little-endian)
STLCounts ==
    {<<k, 0, 0, 0>> : k \in 0..(MaxTriangles + 1)} \cup {<<0, 0, 0, 1>>}

STLInputs ==
    [type       : {"stl"},
     byteLength : STLLengths,
     count      : STLCounts,
     triangles  : UNION {[1..m -> STLTriangles] : m \in 0..MaxTriangles}]

\* the buffer the input describes
STLContent(in) ==
    [kind       |-> "stl",
     byteLength |-> in.byteLength,
     count      |-> in.count,
     triangles  |-> in.triangles,
     text       |-> <<>>]

InitBinary ==
    /\ AdapterInit
    /\ AppInit
    /\ arg \in EDFInputs \cup NIfTIInputs \cup STLInputs
    /\ ret = NoData

\* parseNIfTI on the buffer, with a fresh this.metadata to write to
DecodeNIfTI ==
    /\ arg.type = "nifti"
    /\ ret = NoData
    /\ ret' = Decoded(parseNIfTI(NIfTIContent(arg)))
    /\ UNCHANGED <<adapterVars, appVars, arg>>

\* parseSTLBinary on the buffer, with a fresh this.metadata to write to
DecodeSTLBinary ==
    /\ arg.type = "stl"
    /\ ret = NoData
    /\ ret' = Decoded(parseSTLBinary(STLContent(arg)))
    /\ UNCHANGED <<adapterVars, appVars, arg>>

NextBinary == DecodeEDF \/ DecodeNIfTI \/ DecodeSTLBinary

SpecBinary == InitBinary /\ [][NextBinary]_vars

-----------------------------------------------------------------------------
(* The mesh decoders on their own: parseOBJ, parseSTL, parsePLY *)

OBJLineSet ==
    {<<"v"," ","0"," ","0"," ","0">>,
     <<"v"," ","1",".","5"," ","0"," ","2">>,
     <<"v","n"," ","0"," ","0"," ","1">>,
     <<"v","t"," ","0"," ","1">>,
     <<"f"," ","1"," ","2"," ","3">>,
     <<"f"," ","1","/","/","1"," ","2","/","1"," ","3">>,
     <<"f"," ","1"," ","2">>}

OBJInputs == [type : {"obj"}, lines : SeqsUpTo(OBJLineSet, MaxLines)]

\* the first line of an STL text
STLFirstLines ==
    {<<"s","o","l","i","d"," ","a">>,
     <<"S","O","L","I","D">>,
     <<"S","o","l","i","d">>,
     <<" ","s","o","l","i","d">>,
     <<"\t","s","o","l","i","d">>,
     <<"s","o","l","i">>,
     <<"x","s","o","l","i","d">>,
     <<"f","a","c","e","t">>}

STLBodyLines ==
    {<<"f","a","c","e","t"," ","n","o","r","m","a","l"," ","0"," ","0"," ","1">>,
     <<"v","e","r","t","e","x"," ","0"," ","0"," ","0">>,
     <<"v","e","r","t","e","x"," ","1"," ","0"," ","2",".","5">>,
     <<"e","n","d","f","a","c","e","t">>}

\* STL texts of fewer than 84 bytes: a first line, then up to MaxFacetLines
\* lines; and a line feed before the word solid
STLTexts ==
    {Join(<<first>> \o body) :
        first \in STLFirstLines, body \in SeqsUpTo(STLBodyLines, MaxFacetLines)}
    \cup {<<"\n">> \o Join(<<<<"s","o","l","i","d">>>> \o body) :
            body \in SeqsUpTo(STLBodyLines, MaxFacetLines)}

\* the text of the 80-byte header of a binary STL buffer; what file.text()
\* makes of the bytes after the header is left out (it is taken to hold no
\* line that starts with facet normal or vertex)
STLHeaders == {<<"s","o","l","i","d"," ","b","i","n">>,
               <<"b","i","n","a","r","y">>,
               <<" ","s","o","l","i","d">>}

\* STL files: texts (the buffer is the text's bytes, too short for a count
\* field), and binary buffers of one triangle under a header
STLFileInputs ==
    {[type |-> "stlfile", text |-> t, byteLength |-> Len(t),
      count |-> <<0, 0, 0, 0>>, triangles |-> <<>>] : t \in STLTexts}
    \cup {[type |-> "stlfile", text |-> h, byteLength |-> 84 + 50,
           count |-> <<1, 0, 0, 0>>, triangles |-> <<t>>] :
             h \in STLHeaders, t \in STLTriangles}

\* the file the input describes
STLFileContent(in) ==
    [kind       |-> "stl",
     byteLength |-> in.byteLength,
     count      |-> in.count,
     triangles  |-> in.triangles,
     text       |-> in.text]

\* the body lines of an ASCII PLY text: two vertex lines; a face line of two
\* indices; one whose count says three for two indices; one with an index
\* past the vertices
PLYVertexLines == {<<"0"," ","0"," ","0">>, <<"1"," ","0"," ","2",".","5">>}

PLYLineSet ==
    PLYVertexLines \cup {<<"2"," ","0"," ","1">>,
     <<"3"," ","0"," ","1">>,
     <<"2"," ","0"," ","7">>}

\* the counts the element lines declare
PLYCounts ==
    {Field(<<DecDigits[n + 1]>>, TRUE, n, 1) : n \in 0..MaxElements}

PLYInputs ==
    [type     : {"ply"},
     vertices : PLYCounts,
     faces    : PLYCounts,
     body     : SeqsUpTo(PLYLineSet, MaxLines)]

\* the text the input describes
PLYText(in) ==
    Join(<<<<"p","l","y">>,
           <<"f","o","r","m","a","t"," ","a","s","c","i","i"," ","1",".","0">>,
           <<"e","l","e","m","e","n","t"," ","v","e","r","t","e","x"," ">> \o in.vertices.text,
           <<"p","r","o","p","e","r","t","y"," ","f","l","o","a","t"," ","x">>,
           <<"e","l","e","m","e","n","t"," ","f","a","c","e"," ">> \o in.faces.text,
           <<"e","n","d","_","h","e","a","d","e","r">>>>
         \o in.body)

InitMesh ==
    /\ AdapterInit
    /\ AppInit
    /\ arg \in OBJInputs \cup STLFileInputs \cup PLYInputs
    /\ ret = NoData

\* parseOBJ on the text, with a fresh this.metadata to write to
DecodeOBJ ==
    /\ arg.type = "obj"
    /\ ret = NoData
    /\ ret' = Decoded(parseOBJ(Join(arg.lines)))
    /\ UNCHANGED <<adapterVars, appVars, arg>>

\* parseSTL on the file, with a fresh this.metadata to write to
DecodeSTL ==
    /\ arg.type = "stlfile"
    /\ ret = NoData
    /\ ret' = Decoded(parseSTL(STLFileContent(arg)))
    /\ UNCHANGED <<adapterVars, appVars, arg>>

\* parsePLY on the text, with a fresh this.metadata to write to
DecodePLY ==
    /\ arg.type = "ply"
    /\ ret = NoData
    /\ ret' = Decoded(parsePLY(PLYText(arg)))
    /\ UNCHANGED <<adapterVars, appVars, arg>>

NextMesh == DecodeOBJ \/ DecodeSTL \/ DecodePLY

SpecMesh == InitMesh /\ [][NextMesh]_vars

-----------------------------------------------------------------------------
(* The point cloud decoders on their own: parseXYZ, parsePCD *)

XYZLineSet ==
    {<<"0"," ","0"," ","0">>,
     <<"1"," ","2",".","5"," ","3"," ","2","5","5"," ","0"," ","0">>,
     <<" ","4"," ","5"," ","6"," ","7">>,
     <<"1"," ","2">>,
     <<>>,
     <<"#"," ","c">>,
     <<"x"," ","y"," ","z">>}

XYZInputs == [type : {"xyz"}, lines : SeqsUpTo(XYZLineSet, MaxLines)]

\* the count of the POINTS line
PCDCounts ==
    {Field(<<"0">>, TRUE, 0, 1), Field(<<"2">>, TRUE, 2, 1),
     Field(<<"3">>, TRUE, 3, 1), Field(<<"1","0","0","0">>, TRUE, 1000, 1),
     Field(<<"x">>, FALSE, 0, 1)}

\* data rows: full rows of three and four numbers, a short row, a blank one
PCDFullRows ==
    {<<"0"," ","0"," ","0">>,
     <<"1"," ","2"," ","3"," ","4",".","2">>}

PCDRowSet ==
    PCDFullRows \cup {<<"1"," ","2">>,
     <<>>}

PCDInputs ==
    [type     : {"pcd"},
     rgb      : BOOLEAN,
     declared : PCDCounts,
     rows     : SeqsUpTo(PCDRowSet, MaxLines),
     trailing : BOOLEAN]

\* the text the input describes: a header, the data rows, and a line feed
\* at the end when trailing
PCDText(in) ==
    Join(<<<<"#"," ",".","P","C","D"," ","v",".","7">>,
           IF in.rgb THEN <<"F","I","E","L","D","S"," ","x"," ","y"," ","z"," ","r","g","b">>
           ELSE <<"F","I","E","L","D","S"," ","x"," ","y"," ","z">>,
           <<"P","O","I","N","T","S"," ">> \o in.declared.text,
           <<"D","A","T","A"," ","a","s","c","i","i">>>>
         \o in.rows \o (IF in.trailing THEN << <<>> >> ELSE <<>>))

InitCloud ==
    /\ AdapterInit
    /\ AppInit
    /\ arg \in XYZInputs \cup PCDInputs
    /\ ret = NoData

\* parseXYZ on the text, with a fresh this.metadata to write to
DecodeXYZ ==
    /\ arg.type = "xyz"
    /\ ret = NoData
    /\ ret' = Decoded(parseXYZ(Join(arg.lines)))
    /\ UNCHANGED <<adapterVars, appVars, arg>>

\* parsePCD on the text, with a fresh this.metadata to write to
DecodePCD ==
    /\ arg.type = "pcd"
    /\ ret = NoData
    /\ ret' = Decoded(parsePCD(PCDText(arg)))
    /\ UNCHANGED <<adapterVars, appVars, arg>>

NextCloud == DecodeXYZ \/ DecodePCD

SpecCloud == InitCloud /\ [][NextCloud]_vars

-----------------------------------------------------------------------------
(* parseCSVasEEG on its own *)

\* header rows of names
CSVHeaderRows ==
    {<<"t","i","m","e",",","v","a","l","u","e">>,
     <<"t",",","a",",","b">>}

\* rows of numbers, comma-separated
CSVNumericRows ==
    {<<"1",",","2">>,
     <<"0",".","1",",","2",".","5">>,
     <<"1",",","2",",","3">>}

\* rows of numbers, tab-separated
CSVTabRows == {<<"5","\t","6">>}

\* the lines of a CSV text: the rows above, a short row, a row with a cell
\* that is not a number, and a blank line
CSVLineSet ==
    CSVHeaderRows \cup CSVNumericRows \cup CSVTabRows
    \cup {<<"3">>,
     <<"4",",","x">>,
     <<>>}

CSVInputs == [type : {"csv"}, lines : SeqsUpTo(CSVLineSet, MaxLines)]

InitCSV ==
    /\ AdapterInit
    /\ AppInit
    /\ arg \in CSVInputs
    /\ ret = NoData

\* parseCSVasEEG on the text, with a fresh this.metadata to write to
DecodeCSV ==
    /\ arg.type = "csv"
    /\ ret = NoData
    /\ ret' = Decoded(parseCSVasEEG(Join(arg.lines)))
    /\ UNCHANGED <<adapterVars, appVars, arg>>

NextCSV == DecodeCSV

SpecCSV == InitCSV /\ [][NextCSV]_vars

-----------------------------------------------------------------------------
(* parseTimeSeries, parseImage and the rest of the switch of loadFile *)

\* the index after the exponent part of s that starts at m: m when there is
\* none
ExponentEnd(s, m, d) ==
    IF m <= Len(s) /\ s[m] \in {"e", "E"} /\ DigitsEnd(s, d, DecDigits) > d
    THEN DigitsEnd(s, d, DecDigits) ELSE m

\* the index after the decimal literal of s that starts at i (digits, a
\* fraction, an exponent): i when there is none
FractionEnd(s, i, j, f) ==
    IF j = i /\ f <= j + 1 THEN i
    ELSE ExponentEnd(s, f, IF f + 1 <= Len(s) /\ s[f + 1] \in {"+", "-"}
                           THEN f + 2 ELSE f + 1)

LiteralEnd(s, i, j) ==
    FractionEnd(s, i, j, IF j <= Len(s) /\ s[j] = "."
                         THEN DigitsEnd(s, j + 1, DecDigits) ELSE j)

\* Number(t) on a trimmed string: 0 for the empty string, the value of a
\* signed decimal literal or Infinity that is all of t, NaN otherwise (the
\* literals 0x.., 0o.., 0b.. are not modelled)
NumberOfTrimmed(t, i) ==
    IF t = <<>> THEN Num(0)
    ELSE IF SubSeq(t, i, Len(t)) = <<"I","n","f","i","n","i","t","y">> THEN parseFloat(t)
    ELSE IF LiteralEnd(t, i, DigitsEnd(t, i, DecDigits)) = Len(t) + 1
         THEN parseFloat(t)
    ELSE NaN

\* the coercion of a string to a number that isNaN(string) makes
ToNumber(s) ==
    NumberOfTrimmed(trim(s),
                    IF trim(s) # <<>> /\ trim(s)[1] \in {"+", "-"} THEN 2 ELSE 1)

\* isNaN(values[i]) ? values[i] : parseFloat(values[i]), values[i] undefined
\* past the end of the row (i from 1)
TimeSeriesCell(values, i) ==
    IF i > Len(values) THEN Undefined
    ELSE IF isNaN(ToNumber(values[i])) THEN values[i]
    ELSE parseFloat(values[i])

\* headers.forEach((header, i) => { row[header.trim()] = ... })
TimeSeriesRow(headers, values) ==
    ApplyWrites(<<>>, [i \in 1..Len(headers) |->
                          <<trim(headers[i]), TimeSeriesCell(values, i)>>])

\* the object parseTimeSeries returns for delimited text: lines[0] is the
\* header whatever it holds, and lines[0].split throws when there is no line
TimeSeriesResult(lines, delimiter) ==
    IF lines = <<>> THEN Throw("TypeError")
    ELSE Return([type    |-> "timeseries",
                 data    |-> [r \in 1..(Len(lines) - 1) |->
                                 TimeSeriesRow(splitOn(lines[1], delimiter),
                                               splitOn(lines[r + 1], delimiter))],
                 headers |-> splitOn(lines[1], delimiter),
                 format  |-> "csv"],
                <<>>)

\* parseTimeSeries(file, extension) for the extensions that are not .json,
\* after file.text() resolves
parseTimeSeries(file, extension) ==
    TimeSeriesResult(filterNonBlank(splitOn(file.content.text, "\n")),
                     CSVDelimiter(file.content.text))

\* parseImage(file), when the image has loaded
parseImage(file) ==
    Return([type   |-> "image",
            image  |-> file.name,
            width  |-> Num(file.content.width),
            height |-> Num(file.content.height),
            url    |-> file.name],
           << <<"width", Num(file.content.width)>>,
              <<"height", Num(file.content.height)>> >>)

\* parse3DMesh(file, extension) for the extensions that are not .gltf, .glb
parse3DMesh(file, extension) ==
    CASE extension = <<".","o","b","j">> -> parseOBJ(file.content.text)
      [] extension = <<".","s","t","l">> -> parseSTL(file.content)
      [] extension = <<".","p","l","y">> -> parsePLY(file.content.text)
      [] OTHER -> Throw("Error: 3D mesh format not yet implemented")

\* parsePointCloud(file, extension)
parsePointCloud(file, extension) ==
    CASE extension \in {<<".","x","y","z">>, <<".","p","t","s">>, <<".","a","s","c">>} -> parseXYZ(file.content.text)
      [] extension = <<".","p","c","d">> -> parsePCD(file.content.text)
      [] OTHER -> Throw("Error: Point cloud format not yet implemented")

\* the files whose decoding is modelled: all but those parsed by JSON.parse
Dispatchable(dataType, extension) ==
    extension \notin {<<".","g","l","t","f">>, <<".","g","l","b">>, <<".","j","s","o","n">>}

\* whether the decoder the switch of loadFile selects awaits the file (its
\* bytes, its text, the load of the image) before it settles
DispatchAwaits(dataType, extension) ==
    CASE dataType = "eeg" -> IsEDFExtension(extension) \/ IsCSVExtension(extension)
      [] dataType = "neuroimaging" -> IsNIfTIExtension(extension)
      [] dataType = "video" -> FALSE
      [] OTHER -> TRUE

\* the switch of loadFile, all nine cases
Dispatch(dataType, extension, file) ==
    CASE dataType = "eeg" /\ IsCSVExtension(extension) ->
            parseCSVasEEG(file.content.text)
      [] dataType = "neuroimaging" /\ IsNIfTIExtension(extension) ->
            parseNIfTI(file.content)
      [] dataType = "mesh3d" -> parse3DMesh(file, extension)
      [] dataType = "pointcloud" -> parsePointCloud(file, extension)
      [] dataType = "timeseries" -> parseTimeSeries(file, extension)
      [] dataType = "image" -> parseImage(file)
      [] OTHER -> Decode(dataType, extension, file)

-----------------------------------------------------------------------------
(* suggestVisualization and VisualizationEngine.loadVisualization *)

\* suggestVisualization with its switch left without the default case
suggestVisualizationNoDefault(dataType) ==
    CASE dataType = "audio" -> "waveform"
      [] dataType = "eeg" -> "timeseries"
      [] dataType = "neuroimaging" -> "3d-brain"
      [] dataType = "mesh3d" -> "3d-mesh"
      [] dataType = "pointcloud" -> "3d-pointcloud"
      [] dataType = "image" -> "heatmap"
      [] dataType = "timeseries" -> "timeseries"
      [] OTHER -> "undefined"

\* suggestVisualization(), on the value of this.detectedType
suggestVisualization(dataType) ==
    CASE dataType = "audio" -> "waveform"
      [] dataType = "eeg" -> "timeseries"
      [] dataType = "neuroimaging" -> "3d-brain"
      [] dataType = "mesh3d" -> "3d-mesh"
      [] dataType = "pointcloud" -> "3d-pointcloud"
      [] dataType = "image" -> "heatmap"
      [] dataType = "timeseries" -> "timeseries"
      [] OTHER -> "auto"

\* the classes VisualizationEngine.js defines
VizClasses ==
    {"WaveformViz", "TimeSeriesViz", "DefaultViz", "Mesh3DViz",
     "PointCloud3DViz", "Brain3DViz"}

\* the class the switch of loadVisualization names for a type
VizClass(type) ==
    CASE type = "waveform" -> "WaveformViz"
      [] type = "spectrogram" -> "SpectrogramViz"
      [] type = "timeseries" -> "TimeSeriesViz"
      [] type = "heatmap" -> "HeatmapViz"
      [] type = "3d-mesh" -> "Mesh3DViz"
      [] type = "3d-pointcloud" -> "PointCloud3DViz"
      [] type = "3d-brain" -> "Brain3DViz"
      [] OTHER -> "DefaultViz"

\* vertices[x] is a vertex: x is an index into the array
MeshIndexOK(x, vertices) ==
    x.k = "fin" /\ x.d = 1 /\ x.n >= 0 /\ x.n < Len(vertices)

\* meshData.format === format
MeshFormatIs(mesh, format) ==
    "format" \in DOMAIN mesh /\ mesh.format = format

\* Mesh3DViz.prepareBuffers spreads vertices[index] for every index of every
\* face of three or more corners (OBJ, PLY) and normals[i] for every vertex
\* (STL): a TypeError when that is undefined or null
Mesh3DError(mesh) ==
    CASE MeshFormatIs(mesh, "obj") ->
            IF \A i \in 1..Len(mesh.faces) :
                 Len(mesh.faces[i]) >= 3 =>
                   \A k \in 1..Len(mesh.faces[i]) :
                     MeshIndexOK(mesh.faces[i][k].v, mesh.vertices)
            THEN "" ELSE "TypeError"
      [] MeshFormatIs(mesh, "ply") ->
            IF \A i \in 1..Len(mesh.faces) :
                 Len(mesh.faces[i]) >= 3 =>
                   \A k \in 1..Len(mesh.faces[i]) :
                     MeshIndexOK(mesh.faces[i][k], mesh.vertices)
            THEN "" ELSE "TypeError"
      [] MeshFormatIs(mesh, "stl") ->
            IF \A i \in 1..Len(mesh.normals) : mesh.normals[i] # NoNormal
            THEN "" ELSE "TypeError"
      [] OTHER -> ""

\* Brain3DViz.prepareSliceData reads dims[2] of data.metadata.dimensions and,
\* for every voxel of the first slice, vol[index] of data.data.volume: a
\* TypeError when dimensions is undefined, or volume is and the slice has a
\* voxel
Brain3DError(data, meta) ==
    IF "dimensions" \notin DOMAIN meta THEN "TypeError"
    ELSE IF /\ "volume" \notin DOMAIN data
            /\ LessThan(Num(0), meta["dimensions"][1])
            /\ LessThan(Num(0), meta["dimensions"][2])
         THEN "TypeError"
    ELSE ""

\* new Class(gl, data) with WebGL at hand: the error it throws, "" when it
\* returns.  A class that is not defined is a ReferenceError;
\* TimeSeriesViz reads data.data.channels.length
Construct(class, data, meta) ==
    CASE class \notin VizClasses -> "ReferenceError"
      [] class = "TimeSeriesViz" ->
            IF "channels" \in DOMAIN data THEN "" ELSE "TypeError"
      [] class = "Mesh3DViz" -> Mesh3DError(data)
      [] class = "Brain3DViz" -> Brain3DError(data, meta)
      [] OTHER -> ""

\* what loadVisualization does once the class has been constructed, or has
\* thrown error: the frame requested before is cancelled in both cases
LoadedWith(engine, rendering, class, error) ==
    IF error # ""
    THEN [error     |-> error,
          vizEngine |-> engine,
          rendering |-> IF engine.animationId THEN FALSE ELSE rendering]
    ELSE [error     |-> "",
          vizEngine |-> [currentViz |-> class, animationId |-> TRUE],
          rendering |-> TRUE]

\* VisualizationEngine.loadVisualization(type, data), data an envelope whose
\* parsed data is data and whose metadata object is meta; rendering: a frame
\* of the engine's animation loop is requested
loadVisualization(engine, rendering, type, data, meta) ==
    LoadedWith(engine, rendering, VizClass(type),
               Construct(VizClass(type), data, meta))

-----------------------------------------------------------------------------
(* main.js: handleFiles, and the files dropped on the page *)

\* the files a user may drop: those of the table above, and an image, a
\* mesh, a point cloud, a table and a volume
AppFileTable ==
    FileTable \o <<
    [name |-> <<"p","i","c",".","p","n","g">>,
     type |-> <<"i","m","a","g","e","/","p","n","g">>,
     lastModified |-> 17,
     content |-> [kind |-> "image", byteLength |-> 2048,
                  width |-> 4, height |-> 3]],
    [name |-> <<"m",".","o","b","j">>,
     type |-> <<>>,
     lastModified |-> 18,
     content |-> [kind |-> "text", byteLength |-> Len(<<"v"," ","0"," ","0"," ","0","\n","v"," ","1"," ","0"," ","0","\n","v"," ","0"," ","1"," ","0","\n","f"," ","1"," ","2"," ","3">>),
                  text |-> <<"v"," ","0"," ","0"," ","0","\n","v"," ","1"," ","0"," ","0","\n","v"," ","0"," ","1"," ","0","\n","f"," ","1"," ","2"," ","3">>]],
    [name |-> <<"c",".","x","y","z">>,
     type |-> <<>>,
     lastModified |-> 19,
     content |-> [kind |-> "text", byteLength |-> Len(<<"0"," ","0"," ","0","\n","1"," ","2",".","5"," ","3">>),
                  text |-> <<"0"," ","0"," ","0","\n","1"," ","2",".","5"," ","3">>]],
    [name |-> <<"t",".","t","s","v">>,
     type |-> <<>>,
     lastModified |-> 20,
     content |-> [kind |-> "text", byteLength |-> Len(<<"t","\t","v","\n","1","\t","2">>),
                  text |-> <<"t","\t","v","\n","1","\t","2">>]],
    [name |-> <<"b",".","n","i","i">>,
     type |-> <<>>,
     lastModified |-> 21,
     content |-> NIfTIContent([byteLength |-> 352,
                               sizeofHdr  |-> <<92, 1, 0, 0>>,
                               dim        |-> <<3, 2, 2, 2, 1, 1, 1, 1>>,
                               voxOffset  |-> Num(352)])] >>

AppFiles == 1..Len(AppFileTable)

\* the pure part of loadFile on each of these files
AppLoading ==
    [f \in AppFiles |->
        LET file      == AppFileTable[f]
            extension == getFileExtension(file.name)
            dataType  == detectDataType(extension, file)
        IN  [extension |-> extension,
             dataType  |-> dataType,
             decodable |-> Dispatchable(dataType, extension),
             awaits    |-> DispatchAwaits(dataType, extension),
             fresh     |-> NewMetadata(file, extension, dataType),
             outcome   |-> IF Dispatchable(dataType, extension)
                           THEN Dispatch(dataType, extension, file)
                           ELSE NoOutcome]]

\* initAudioPlayback(): nothing unless the data shown is audio; the playback
\* fields are reset (the audio context is kept)
initAudioPlayback(a, type) ==
    IF type # "audio" THEN a
    ELSE [a EXCEPT !.audioBuffer  = FALSE,
                   !.audioSource  = 0,
                   !.isPlaying    = FALSE,
                   !.startTime    = 0,
                   !.pauseTime    = 0,
                   !.audioDecoded = FALSE]

\* no handleFiles call has a continuation in the microtask queue: each is
\* over, or waits for its file to be read or for the digest of its data.  A
\* drop event, the reading of a file and a digest are tasks of the event
\* loop, which runs one only when the microtask queue is empty
Quiescent ==
    \A c \in Calls : handlers[c].pc = "loading" => calls[c].pc = "io"

\* handleFiles(files) with one file or more, up to its await: the status is
\* shown, this.currentFile is the first file, and loadFile runs on it up to
\* its first suspension
HandleFiles(c, f) ==
    /\ Quiescent
    /\ StartWith(c, f, AppLoading[f],
                 IF AppLoading[f].awaits THEN NoOutcome
                 ELSE AppLoading[f].outcome)
    /\ app' = [app EXCEPT !.currentFile = f]
    /\ handlers' = [handlers EXCEPT ![c] = [IdleHandler EXCEPT !.pc = "loading"]]
    /\ UNCHANGED <<vizEngine, browser>>

\* the file handed to call c has been read: its decoder runs to its end
FileArrives(c) ==
    /\ Quiescent
    /\ calls[c].pc = "io"
    /\ BytesArriveWith(c, AppLoading[calls[c].file].outcome)

\* the reading of the file handed to call c fails
FileReadFails(c) ==
    /\ Quiescent
    /\ ReadFails(c)

\* handleFiles from the return of loadFile to the await of setDataHash:
\* this.currentData is the envelope, suggestVisualization() is asked and
\* this.loadVisualization(suggestedViz) run.  When the engine has loaded the
\* visualization the parameter controls are rebuilt (the audio transport and
\* initAudioPlayback for audio metadata) and the hash of the data awaited;
\* when the engine throws, loadVisualization catches the error, shows it and
\* returns, and handleFiles shows the file as loaded
HandleLoadedWith(c, suggestedViz, loaded, type) ==
    /\ app' = IF loaded.error = ""
              THEN initAudioPlayback(
                       [app EXCEPT !.currentData = calls[c].envelope], type)
              ELSE [app EXCEPT !.currentData = calls[c].envelope]
    /\ vizEngine' = loaded.vizEngine
    /\ browser' = [browser EXCEPT
                      !.rendering = loaded.rendering,
                      !.buffer = c,
                      !.audioControls =
                          IF loaded.error = "" THEN type = "audio" ELSE @]
    /\ handlers' = [handlers EXCEPT ![c] =
            [@ EXCEPT !.pc = IF loaded.error = "" THEN "hashing" ELSE "done",
                      !.suggestedViz = suggestedViz,
                      !.vizError = loaded.error,
                      !.status = IF loaded.error = "" THEN @ ELSE "success"]]
    /\ UNCHANGED <<adapterVars, arg, ret>>

HandleLoaded(c) ==
    /\ handlers[c].pc = "loading"
    /\ calls[c].pc = "returned"
    /\ HandleLoadedWith(c, suggestVisualization(detectedType),
                        loadVisualization(vizEngine, browser.rendering,
                                          suggestVisualization(detectedType),
                                          calls[c].envelope.data,
                                          heap[calls[c].envelope.metadata]),
                        heap[calls[c].envelope.metadata].type)

\* loadFile rejected: the catch of handleFiles shows the error
HandleFailed(c) ==
    /\ handlers[c].pc = "loading"
    /\ calls[c].pc = "rejected"
    /\ handlers' = [handlers EXCEPT ![c] =
            [@ EXCEPT !.pc = "done", !.status = "error"]]
    /\ UNCHANGED <<adapterVars, arg, ret, app, vizEngine, browser>>

\* setDataHash has settled: the statistics loop starts and handleFiles shows
\* the file as loaded
HashDone(c) ==
    /\ Quiescent
    /\ handlers[c].pc = "hashing"
    /\ handlers' = [handlers EXCEPT ![c] =
            [@ EXCEPT !.pc = "done", !.status = "success"]]
    /\ UNCHANGED <<adapterVars, arg, ret, app, vizEngine, browser>>

\* a caller asks the adapter for its suggestion
Suggest ==
    /\ ret' = [type         |-> "suggestion",
               detectedType |-> detectedType,
               value        |-> suggestVisualization(detectedType)]
    /\ ret' # ret
    /\ UNCHANGED <<adapterVars, appVars, arg>>

NextApp ==
    \/ \E c \in Calls, f \in AppFiles : HandleFiles(c, f)
    \/ \E c \in Calls : FileArrives(c)
    \/ \E c \in Calls : FileReadFails(c)
    \/ \E c \in Calls : Finish(c)
    \/ \E c \in Calls : HandleLoaded(c)
    \/ \E c \in Calls : HandleFailed(c)
    \/ \E c \in Calls : HashDone(c)
    \/ Suggest

SpecApp == Init /\ [][NextApp]_vars

-----------------------------------------------------------------------------
(* main.js: the audio transport (playAudio, pauseAudio, stopAudio, seekAudio
   and the listeners initAudioPlayback installs) *)

\* the page and the browser as one value the playback methods work on
Page == [app |-> app, browser |-> browser]

\* AudioBufferSourceNode.stop(): a source that plays stops, and its 'ended'
\* event is queued; one that has ended already is left alone
stopSource(b, s) ==
    IF s \in b.playing
    THEN [b EXCEPT !.playing = @ \ {s}, !.ended = @ \cup {s}]
    ELSE b

\* stopAudio() that leaves this.audioSource as it is
stopAudioKeepsSource(st) ==
    [app     |-> [st.app EXCEPT !.isPlaying = FALSE,
                                !.pauseTime = 0,
                                !.startTime = 0],
     browser |-> IF st.app.audioSource # 0
                 THEN stopSource(st.browser, st.app.audioSource)
                 ELSE st.browser]

\* stopAudio()
stopAudio(st) ==
    [app     |-> [st.app EXCEPT !.audioSource = 0,
                                !.isPlaying = FALSE,
                                !.pauseTime = 0,
                                !.startTime = 0],
     browser |-> IF st.app.audioSource # 0
                 THEN stopSource(st.browser, st.app.audioSource)
                 ELSE st.browser]

\* playAudio() from createBufferSource on: start(0, offset) throws a
\* RangeError for a negative offset, and the source is then left created and
\* not started
StartSource(st) ==
    IF st.app.pauseTime < 0
    THEN [app     |-> [st.app EXCEPT !.audioSource = st.browser.sources + 1],
          browser |-> [st.browser EXCEPT !.sources = @ + 1]]
    ELSE [app     |-> [st.app EXCEPT
                          !.audioSource = st.browser.sources + 1,
                          !.startTime = st.browser.currentTime - st.app.pauseTime,
                          !.isPlaying = TRUE],
          browser |-> [st.browser EXCEPT
                          !.sources = @ + 1,
                          !.playing = @ \cup {st.browser.sources + 1}]]

\* playAudio()
playAudio(st) ==
    IF ~st.app.audioBuffer \/ ~st.app.audioContext THEN st
    ELSE StartSource([app     |-> st.app,
                      browser |-> IF st.app.audioSource # 0
                                  THEN stopSource(st.browser, st.app.audioSource)
                                  ELSE st.browser])

\* pauseAudio()
pauseAudio(st) ==
    IF st.app.audioSource = 0 \/ ~st.app.isPlaying THEN st
    ELSE [app     |-> [st.app EXCEPT
                          !.pauseTime = st.browser.currentTime - st.app.startTime,
                          !.audioSource = 0,
                          !.isPlaying = FALSE],
          browser |-> stopSource(st.browser, st.app.audioSource)]

\* seekAudio(time) after its stopAudio(): this.pauseTime = time, and
\* playAudio() when the audio was playing
SeekAfterStop(st, time, wasPlaying) ==
    IF wasPlaying
    THEN playAudio([st EXCEPT !.app.pauseTime = time])
    ELSE [st EXCEPT !.app.pauseTime = time]

\* seekAudio(time)
seekAudio(st, time) ==
    SeekAfterStop(IF st.app.isPlaying THEN stopAudio(st) ELSE st, time,
                  st.app.isPlaying)

\* the play / pause listener after its decode
TogglePlayback(st) ==
    IF st.app.isPlaying THEN pauseAudio(st) ELSE playAudio(st)

\* the rest of a listener that awaited decodeAudio(): the play / pause
\* listener toggles, the timeline listener seeks to its value
AfterDecode(st, k) ==
    IF k.handler = "click" THEN TogglePlayback(st) ELSE seekAudio(st, k.time)

\* the playback fields a listener found
Playback(a) ==
    [audioSource |-> a.audioSource, isPlaying |-> a.isPlaying,
     startTime |-> a.startTime, pauseTime |-> a.pauseTime]

\* a listener has run, or has run up to its await, and left the page as st
AudioStep(handler, phase, source, st) ==
    /\ app' = st.app
    /\ browser' = st.browser
    /\ ret' = [type |-> "audio", handler |-> handler, phase |-> phase,
               source |-> source, before |-> Playback(app)]
    /\ UNCHANGED <<adapterVars, arg, vizEngine, handlers>>

\* an event on the transport controls is served: the controls are in the
\* page and no continuation is in the microtask queue
AudioReady ==
    /\ Quiescent
    /\ browser.audioControls

\* decodeAudio() when this.audioDecoded is false, up to its await: the
\* audio context is made if there is none and decodeAudioData is called on
\* the buffer of this.currentData; the listener waits for it
StartDecode(handler, time) ==
    /\ Len(browser.decoding) < MaxDecodes
    /\ AudioStep(handler, "await", 0,
                 [app     |-> [app EXCEPT !.audioContext = TRUE],
                  browser |-> [browser EXCEPT !.decoding =
                                  Append(@, [handler |-> handler,
                                             time    |-> time,
                                             buffer  |-> browser.buffer])]])

\* a click on the play / pause button
ClickPlayPause ==
    /\ AudioReady
    /\ IF ~app.audioDecoded
       THEN StartDecode("click", 0)
       ELSE /\ browser.sources < MaxSources
            /\ AudioStep("click", "run", 0, TogglePlayback(Page))

\* a click on the stop button
ClickStop ==
    /\ AudioReady
    /\ AudioStep("stop", "run", 0, stopAudio(Page))

\* the timeline slider is moved to time
TimelineInput(time) ==
    /\ AudioReady
    /\ IF ~app.audioDecoded
       THEN StartDecode("input", time)
       ELSE /\ browser.sources < MaxSources
            /\ AudioStep("input", "run", 0, seekAudio(Page, time))

\* the browser without its i-th decode under way
DecodeOver(i) ==
    [browser EXCEPT !.decoding =
        SubSeq(@, 1, i - 1) \o SubSeq(@, i + 1, Len(@))]

\* the i-th decodeAudioData under way resolves: decodeAudio() stores the
\* buffer and sets this.audioDecoded, and the listener that awaited it goes
\* on
DecodeResolves(i) ==
    /\ Quiescent
    /\ i \in 1..Len(browser.decoding)
    /\ browser.sources < MaxSources
    /\ AudioStep(browser.decoding[i].handler, "resume", 0,
                 AfterDecode([app     |-> [app EXCEPT !.audioBuffer = TRUE,
                                                      !.audioDecoded = TRUE],
                              browser |-> DecodeOver(i)],
                             browser.decoding[i]))

\* the i-th decodeAudioData under way rejects: decodeAudio() reports the
\* error, and the listener that awaited it returns unless this.audioDecoded
\* has become true
DecodeRejects(i) ==
    /\ Quiescent
    /\ i \in 1..Len(browser.decoding)
    /\ browser.sources < MaxSources
    /\ AudioStep(browser.decoding[i].handler, "failed", 0,
                 IF app.audioDecoded
                 THEN AfterDecode([app |-> app, browser |-> DecodeOver(i)],
                                  browser.decoding[i])
                 ELSE [app |-> app, browser |-> DecodeOver(i)])

\* source s plays its buffer to the end: its 'ended' event is queued
SourceEnds(s) ==
    /\ s \in browser.playing
    /\ browser' = [browser EXCEPT !.playing = @ \ {s}, !.ended = @ \cup {s}]
    /\ UNCHANGED <<adapterVars, arg, ret, app, vizEngine, handlers>>

\* the 'ended' event of source s is dispatched to the onended listener
\* playAudio() gave it: if (this.isPlaying) this.stopAudio()
OnEnded(s) ==
    /\ Quiescent
    /\ s \in browser.ended
    /\ AudioStep("ended", "run", s,
                 IF app.isPlaying
                 THEN stopAudio([app     |-> app,
                                 browser |-> [browser EXCEPT !.ended = @ \ {s}]])
                 ELSE [app     |-> app,
                       browser |-> [browser EXCEPT !.ended = @ \ {s}]])

\* the clock of the audio context advances
AudioTick ==
    /\ browser.currentTime < MaxAudioTime
    /\ browser' = [browser EXCEPT !.currentTime = @ + 1]
    /\ UNCHANGED <<adapterVars, arg, ret, app, vizEngine, handlers>>

\* main.js loadVisualization(vizType) from the listener of the visualization
\* selector, once the engine has answered: the parameter controls are
\* rebuilt, and with them the audio transport, when the engine has loaded the
\* visualization; the error is shown when it has thrown
ChangeWith(loaded, type) ==
    /\ app' = IF loaded.error = "" THEN initAudioPlayback(app, type) ELSE app
    /\ vizEngine' = loaded.vizEngine
    /\ browser' = [browser EXCEPT
                      !.rendering = loaded.rendering,
                      !.audioControls =
                          IF loaded.error = "" THEN type = "audio" ELSE @]
    /\ UNCHANGED <<adapterVars, arg, ret, handlers>>

\* the visualization selector is changed to vizType: nothing unless there is
\* data
ChangeVisualization(vizType) ==
    /\ Quiescent
    /\ app.currentData.type # "none"
    /\ ChangeWith(loadVisualization(vizEngine, browser.rendering, vizType,
                                    app.currentData.data,
                                    heap[app.currentData.metadata]),
                  heap[app.currentData.metadata].type)

\* the values the timeline slider is moved to, in seconds
SeekTimes == {0, 1}

\* the visualizations selected
VizChoices == {"waveform", "spectrogram"}

\* the audio file a user drops
AudioFiles ==
    {f \in AppFiles : AppFileTable[f].name = <<"s","o","n","g",".","w","a","v">>}

NextAudio ==
    \/ \E f \in AudioFiles : HandleFiles(1, f)
    \/ FileArrives(1)
    \/ Finish(1)
    \/ HandleLoaded(1)
    \/ HashDone(1)
    \/ \E vizType \in VizChoices : ChangeVisualization(vizType)
    \/ ClickPlayPause
    \/ ClickStop
    \/ \E time \in SeekTimes : TimelineInput(time)
    \/ \E i \in 1..MaxDecodes : DecodeResolves(i)
    \/ \E i \in 1..MaxDecodes : DecodeRejects(i)
    \/ \E s \in 1..MaxSources : SourceEnds(s)
    \/ \E s \in 1..MaxSources : OnEnded(s)
    \/ AudioTick

SpecAudio == Init /\ [][NextAudio]_vars

-----------------------------------------------------------------------------
(* Claims about concurrent and repeated loadFile calls (under Spec) *)

Returned(c) == calls[c].pc = "returned"

\* the envelope call c returned, with its metadata object read through the
\* reference
Envelope(c) ==
    [type      |-> calls[c].envelope.type,
     metadata  |-> heap[calls[c].envelope.metadata],
     data      |-> calls[c].envelope.data,
     timestamp |-> calls[c].envelope.timestamp]

\* the metadata fields loadFile sets for every file
LoadFields ==
    {"filename", "size", "type", "extension", "mimeType", "lastModified"}

\* the metadata fields that describe a file of a given type
TypeFields(type) ==
    CASE type = "audio" -> {"estimatedDuration", "channels"}
      [] type = "eeg" -> {"sampleRate", "channels", "duration"}
      [] OTHER -> {}

\* C1: every envelope loadFile returns describes that call's own file: its
\* metadata carries the file's own name, size, MIME type, date and detected
\* type, and no field that belongs to a file of another type, however the
\* calls in flight interleave.
C1_EnvelopeDescribesOwnFile ==
    \A c \in Calls :
        Returned(c) =>
            LET e    == Envelope(c)
                file == FileTable[calls[c].file]
            IN  /\ e.type = calls[c].dataType
                /\ e.metadata.filename = file.name
                /\ e.metadata.type = e.type
                /\ e.metadata.size = Num(ByteLength(file.content))
                /\ e.metadata.mimeType = file.type
                /\ e.metadata.lastModified = file.lastModified
                /\ DOMAIN e.metadata \subseteq LoadFields \cup TypeFields(e.type)

\* C2: once loadFile has returned an envelope, no later step of the adapter
\* changes its type, metadata, payload or timestamp.
C2_ReturnedEnvelopeNeverChanges ==
    [][\A c \in Calls : Returned(c) => Envelope(c)' = Envelope(c)]_vars

\* C3: two loadFile calls on the same file return envelopes that are equal
\* in every field.
C3_SameFileSameEnvelope ==
    \A c1, c2 \in Calls :
        Returned(c1) /\ Returned(c2) /\ calls[c1].file = calls[c2].file
            => Envelope(c1) = Envelope(c2)

\* C4: when the selected decoder fails, loadFile is rejected with that very
\* error and returns no envelope; a call that returns an envelope had a
\* decoder that succeeded.
C4_DecoderErrorPropagates ==
    \A c \in Calls :
        LET call == calls[c]
        IN  /\ call.pc \in {"returned", "rejected"} /\ call.outcome.threw
                => /\ call.pc = "rejected"
                   /\ call.error = call.outcome.error
                   /\ call.envelope = NoEnvelope
            /\ call.pc \in {"returned", "rejected"}
               /\ Loading[call.file].outcome.threw
                => /\ call.pc = "rejected"
                   /\ call.error \in {Loading[call.file].outcome.error,
                                      "NotReadableError"}
                   /\ call.envelope = NoEnvelope
            /\ call.pc = "returned" => ~call.outcome.threw

\* a call whose decoder threw after the bytes arrived has been rejected while
\* another call returned its envelope
C4_Witness ==
    \E c, b \in Calls :
        /\ calls[c].pc = "rejected"
        /\ calls[c].error = "TypeError"
        /\ AwaitsBytes(calls[c].dataType, calls[c].extension)
        /\ calls[b].pc = "returned"

-----------------------------------------------------------------------------
(* Claims about the classifier (under SpecClassify) *)

Modalities == {supportedFormats[k].type : k \in 1..Len(supportedFormats)}

TableExtensions ==
    UNION {{supportedFormats[k].extensions[i] :
                i \in 1..Len(supportedFormats[k].extensions)} :
           k \in 1..Len(supportedFormats)}

EndsWith(s, e) ==
    Len(s) >= Len(e) /\ SubSeq(s, Len(s) - Len(e) + 1, Len(s)) = e

\* the name ends in an extension of the table
ListedLower(lower) == \E e \in TableExtensions : EndsWith(lower, e)

Listed(name) == ListedLower(toLowerCase(name))

\* C5: classification is total: on every file name (no dot, one dot, several
\* dots, a dot at the end) and every MIME type, the empty one included, it
\* yields an extension and exactly one of the nine modality tags.
C5_ClassificationTotal ==
    ret.type = "classified" =>
        /\ ret.dataType \in Modalities
        /\ ret.dataTypeOther \in Modalities
        /\ ret.extension = <<>> \/ ret.extension[1] = "."

\* a name with several dots that ends in a dot, with the empty MIME type
C5_Witness ==
    /\ ret.type = "classified"
    /\ arg.name = <<"a", ".", "c", "s", "v", ".">>
    /\ arg.mime = <<>>
    /\ ret.dataType = "generic"

\* C6: a file name that ends in an extension listed under modality M is
\* classified M, for every M that lists it; a name with no listed extension
\* is audio with MIME type audio/mpeg and generic with the empty MIME type.
C6_TableModality ==
    ret.type = "classified" =>
        /\ \A k \in 1..Len(supportedFormats) :
             \A i \in 1..Len(supportedFormats[k].extensions) :
                EndsWith(arg.name, supportedFormats[k].extensions[i])
                    => ret.dataType = supportedFormats[k].type
        /\ ~Listed(arg.name)
           /\ arg.mime = <<"a","u","d","i","o","/","m","p","e","g">>
                => ret.dataType = "audio"
        /\ ~Listed(arg.name) /\ arg.mime = <<>> => ret.dataType = "generic"

\* C7: for a name whose extension is in the table the MIME type does not
\* matter: two files of that name get the same modality.
C7_ExtensionOverMime ==
    ret.type = "classified" /\ Listed(arg.name)
        => ret.dataType = ret.dataTypeOther

\* a .csv file classified twice, once as audio/mpeg and once as image/png
C7_Witness ==
    /\ ret.type = "classified"
    /\ arg.name = <<"a", ".", "c", "s", "v">>
    /\ arg.mime = <<"a","u","d","i","o","/","m","p","e","g">>
    /\ arg.other = <<"i","m","a","g","e","/","p","n","g">>
    /\ ret.dataType = "eeg"
    /\ ret.dataTypeOther = "eeg"

-----------------------------------------------------------------------------
(* Claims about parseEDF (under SpecEDF) *)

\* every count of the header is a number in digits, the record duration is
\* positive, and the file holds the signal headers it declares
ValidHeader(in) ==
    /\ in.headerBytes.ok /\ in.numRecords.ok /\ in.recordDuration.ok
    /\ in.numSignals.ok
    /\ in.recordDuration.n > 0
    /\ in.numSignals.n = Len(in.numSamples)
    /\ \A i \in 1..Len(in.numSamples) : in.numSamples[i].ok

C9_ZeroSignalsDecode ==
    /\ ret.type = "decoded"
    /\ arg.headerBytes.ok /\ arg.numRecords.ok /\ arg.recordDuration.ok
    /\ arg.numSignals.text = <<"0">>
    /\ Len(arg.numSamples) = 0
    => /\ ~ret.outcome.threw
       /\ Len(ret.outcome.value.signals) = 0

\* some count field of the header is not a number in digits
Malformed(in) ==
    \/ ~in.headerBytes.ok \/ ~in.numRecords.ok \/ ~in.recordDuration.ok
    \/ ~in.numSignals.ok
    \/ \E i \in 1..Len(in.numSamples) : ~in.numSamples[i].ok

\* C10: a header with a count field that is not a number in digits is
\* rejected with MalformedHeader, and no envelope carries a NaN count, sample
\* rate or duration.
C10_MalformedHeaderRejected ==
    ret.type = "decoded" =>
        /\ Malformed(arg) =>
              ret.outcome.threw /\ ret.outcome.error = "MalformedHeader"
        /\ ~ret.outcome.threw =>
              /\ ~isNaN(ret.outcome.value.dataOffset)
              /\ ~isNaN(ret.outcome.value.channels)
              /\ ~isNaN(ret.outcome.value.sampleRate)
              /\ ~isNaN(ret.metadata.duration)
              /\ ~isNaN(ret.outcome.value.header.numRecords)
              /\ \A i \in 1..Len(ret.outcome.value.signals) :
                    ~isNaN(ret.outcome.value.signals[i].numSamples)

-----------------------------------------------------------------------------
(* Claims about the binary decoders (under SpecBinary) *)

\* the triangle count the count field of a binary STL input declares
DeclaredTriangles(in) ==
    LE32(in.count[1], in.count[2], in.count[3], in.count[4])

\* the input's buffer ends before the bytes its format requires: an EDF file
\* before the signal headers it declares, a NIfTI file before the end of the
\* 348-byte header, a binary STL before 84 + 50 * count
Truncated(in) ==
    \/ in.type = "edf" /\ in.numSignals.ok
       /\ in.numSignals.n > Len(in.numSamples)
    \/ in.type = "nifti" /\ in.byteLength < 348
    \/ in.type = "stl" /\ in.byteLength < 84 + 50 * DeclaredTriangles(in)

\* C11: a buffer of a fixed-layout binary format (EDF, NIfTI, binary STL)
\* that ends before a byte range its header or its declared counts require
\* makes the decode fail; in particular a binary STL whose count claims more
\* than (length - 84) / 50 triangles fails.
C11_TruncatedInputFails ==
    ret.type = "decoded" /\ Truncated(arg) => ret.outcome.threw

\* C12: a NIfTI header whose sizeof_hdr field (little-endian int32 at 0) is
\* not 348 is rejected, and no result is returned for it.
C12_NIfTIHeaderSize348 ==
    /\ ret.type = "decoded"
    /\ arg.type = "nifti"
    /\ LE32(arg.sizeofHdr[1], arg.sizeofHdr[2], arg.sizeofHdr[3],
            SignedByte(arg.sizeofHdr[4])) # 348
    => ret.outcome.threw

\* C15: a well-formed binary STL buffer with count N (84 + 50 * N bytes)
\* decodes to triangleCount N, 3N vertices and 3N normals, the three normals
\* of every triangle being the normal of its record and the vertices the
\* vertices of its record.
C15_BinarySTLRoundTrip ==
    /\ ret.type = "decoded"
    /\ arg.type = "stl"
    /\ arg.byteLength = 84 + 50 * DeclaredTriangles(arg)
    => /\ ~ret.outcome.threw
       /\ ret.outcome.value.triangleCount = Num(DeclaredTriangles(arg))
       /\ ret.metadata.triangleCount = Num(DeclaredTriangles(arg))
       /\ ret.metadata.vertexCount = Num(3 * DeclaredTriangles(arg))
       /\ Len(ret.outcome.value.vertices) = 3 * DeclaredTriangles(arg)
       /\ Len(ret.outcome.value.normals) = 3 * DeclaredTriangles(arg)
       /\ \A k \in 0..(DeclaredTriangles(arg) - 1) : \A j \in 1..3 :
            /\ ret.outcome.value.normals[3 * k + j]
                 = ReadValues(ReadVec3(STLContent(arg), 84 + 50 * k))
            /\ ret.outcome.value.vertices[3 * k + j]
                 = ReadValues(ReadVec3(STLContent(arg), 84 + 50 * k + 12 * j))

\* a buffer of two triangles with different normals has been decoded
C15_Witness ==
    /\ ret.type = "decoded"
    /\ arg.type = "stl"
    /\ arg.count = <<2, 0, 0, 0>>
    /\ arg.byteLength = 184
    /\ Len(arg.triangles) = 2
    /\ arg.triangles[1] # arg.triangles[2]
    /\ Len(ret.outcome.value.normals) = 6
    /\ ret.outcome.value.normals[3] # ret.outcome.value.normals[4]

-----------------------------------------------------------------------------
(* Claims about the mesh decoders (under SpecMesh) *)

\* C13: in every OBJ mesh that decodes, every face's vertex index is a whole
\* number i with 0 <= i < the number of decoded vertices (a face that refers
\* past the vertex list makes the decode fail).
C13_OBJFaceIndicesInRange ==
    ret.type = "decoded" /\ arg.type = "obj" /\ ~ret.outcome.threw =>
        \A f \in 1..Len(ret.outcome.value.faces) :
            \A j \in 1..Len(ret.outcome.value.faces[f]) :
                /\ ret.outcome.value.faces[f][j].v.k = "fin"
                /\ ret.outcome.value.faces[f][j].v.d = 1
                /\ ret.outcome.value.faces[f][j].v.n >= 0
                /\ ret.outcome.value.faces[f][j].v.n
                     < Len(ret.outcome.value.vertices)

\* C14: every face of an OBJ mesh that decodes has at least 3 vertex groups
\* (an f line with fewer makes the decode fail).
C14_OBJFaceArity ==
    ret.type = "decoded" /\ arg.type = "obj" /\ ~ret.outcome.threw =>
        \A f \in 1..Len(ret.outcome.value.faces) :
            Len(ret.outcome.value.faces[f]) >= 3

\* the first five characters of the text that are not white space are the
\* word solid, in any letter case
SolidAfterWhiteSpace(text) ==
    startsWith(toLowerCase(SubSeq(text, SkipWhite(text, 1), Len(text))),
               <<"s","o","l","i","d">>)

\* C16: an STL buffer whose first 5 non-whitespace bytes are solid, in any
\* letter case, is decoded by the ASCII decoder, every other buffer by the
\* binary decoder.
C16_STLDispatch ==
    ret.type = "decoded" /\ arg.type = "stlfile" =>
        ret.outcome = IF SolidAfterWhiteSpace(arg.text)
                      THEN parseSTLAscii(arg.text)
                      ELSE parseSTLBinary(STLFileContent(arg))

-----------------------------------------------------------------------------
(* Claims about the point cloud decoders (under SpecCloud) *)

\* C17: in every decoded point cloud (XYZ or PCD) the color list is absent
\* or has exactly as many entries as the point list.
C17_ColorsParallelToPoints ==
    ret.type = "decoded" /\ ~ret.outcome.threw =>
        \/ ret.outcome.value.colorsIsNull
        \/ Len(ret.outcome.value.colors) = Len(ret.outcome.value.points)

Min(a, b) == IF a < b THEN a ELSE b

\* C18: a PCD file whose POINTS count is a number and whose data rows after
\* the DATA line all hold three or more numbers decodes without error to
\* min(declared count, rows present) points, so a count beyond the rows
\* present yields as many points as there are rows.
C18_PCDTruncation ==
    /\ ret.type = "decoded"
    /\ arg.type = "pcd"
    /\ arg.declared.ok
    /\ \A i \in 1..Len(arg.rows) : arg.rows[i] \in PCDFullRows
    => /\ ~ret.outcome.threw
       /\ Len(ret.outcome.value.points) = Min(arg.declared.n, Len(arg.rows))
       /\ ret.outcome.value.pointCount
            = Num(Min(arg.declared.n, Len(arg.rows)))
       /\ ret.metadata.pointCount = Num(Min(arg.declared.n, Len(arg.rows)))

\* POINTS 1000 over four full rows has been decoded to four points
C18_Witness ==
    /\ ret.type = "decoded"
    /\ arg.type = "pcd"
    /\ arg.declared.n = 1000
    /\ Len(arg.rows) = 4
    /\ \A i \in 1..Len(arg.rows) : arg.rows[i] \in PCDFullRows
    /\ Len(ret.outcome.value.points) = 4

-----------------------------------------------------------------------------
(* Claims about parseCSVasEEG (under SpecCSV) *)

\* the lines of the input that are not empty
RECURSIVE NonEmpty(_)
NonEmpty(lines) ==
    IF Len(lines) = 0 THEN <<>>
    ELSE IF lines[1] = <<>> THEN NonEmpty(Tail(lines))
    ELSE <<lines[1]>> \o NonEmpty(Tail(lines))

\* the number of cells of a comma-separated row
Cells(row) == Len(splitOn(row, ","))

\* rows i.. of lines are comma-separated rows of k numbers
NumericFrom(lines, i, k) ==
    \A j \in i..Len(lines) : lines[j] \in CSVNumericRows /\ Cells(lines[j]) = k

\* a header row of names followed by rows of as many numbers
HeaderedCSV(lines) ==
    /\ Len(lines) >= 1
    /\ lines[1] \in CSVHeaderRows
    /\ NumericFrom(lines, 2, Cells(lines[1]))

\* rows of numbers only, all of the same width and the same separator
HeaderlessCSV(lines) ==
    /\ Len(lines) >= 1
    /\ \/ lines[1] \in CSVNumericRows /\ NumericFrom(lines, 2, Cells(lines[1]))
       \/ \A j \in 1..Len(lines) : lines[j] \in CSVTabRows

\* the number of columns of a row of numbers
Width(row) == IF row \in CSVTabRows THEN Len(splitOn(row, "\t")) ELSE Cells(row)

C20_ChannelsEqualLength ==
    ret.type = "decoded" /\ arg.type = "csv" /\ ~ret.outcome.threw =>
        \A c1, c2 \in 1..Len(ret.outcome.value.channels) :
            Len(ret.outcome.value.channels[c1])
              = Len(ret.outcome.value.channels[c2])

\* C22: the first row of a CSV text is taken as the header exactly when at
\* least one of its tokens, at any column, is not a number; a first row of
\* numbers only is taken as data.
C22_HeaderWhenAnyTokenNotNumeric ==
    ret.type = "decoded" /\ arg.type = "csv" /\ ~ret.outcome.threw =>
        LET firstLine == splitOn(NonEmpty(arg.lines)[1],
                                 CSVDelimiter(Join(arg.lines)))
        IN  (ret.outcome.value.channelNames = firstLine)
              <=> \E i \in 1..Len(firstLine) : isNaN(parseFloat(firstLine[i]))

-----------------------------------------------------------------------------
(* Claims about readString (under SpecEDF) *)

\* C23: readString never throws: in the reads parseEDF makes of the signal
\* headers the file header declares, also where a field lies past the end of
\* the buffer, it returns the part of the field inside the buffer.
C23_ReadStringNeverThrows ==
    ret.type = "decoded" /\ arg.type = "edf" /\ arg.numSignals.ok =>
        \A i \in 0..(arg.numSignals.n - 1) :
            ~AnyThrew(EDFSignalReads(EDFContent(arg), 256 + 256 * i))

-----------------------------------------------------------------------------
(* Claims about parseXYZ and parsePLY (under SpecCloud and SpecMesh) *)

\* the number of tokens of a line that are numbers
NumericTokens(line) ==
    Cardinality({i \in 1..Len(splitWhite(trim(line))) :
                    ~isNaN(parseFloat(splitWhite(trim(line))[i]))})

\* C24: in a decoded XYZ point cloud every line with fewer than 3 numeric
\* tokens is skipped and the decode does not fail: every point has three
\* numeric coordinates, and there are as many points as lines with at least
\* 3 numeric tokens.
C24_XYZPointsAreNumeric ==
    ret.type = "decoded" /\ arg.type = "xyz" =>
        /\ ~ret.outcome.threw
        /\ \A p \in 1..Len(ret.outcome.value.points) :
             \A k \in 1..3 : ~isNaN(ret.outcome.value.points[p][k])
        /\ Len(ret.outcome.value.points)
             = Cardinality({i \in 1..Len(arg.lines) :
                              NumericTokens(arg.lines[i]) >= 3})

\* C25: a decoded ASCII PLY file has the declared N lines after end_header
\* as its vertices and the next declared M lines as its faces, every face
\* with as many indices as the first token of its line says, each index a
\* 0-based offset into the N vertices.
C25_PLYFacesMatchCounts ==
    ret.type = "decoded" /\ arg.type = "ply" /\ ~ret.outcome.threw =>
        /\ Len(ret.outcome.value.vertices) = arg.vertices.n
        /\ Len(ret.outcome.value.faces) = arg.faces.n
        /\ \A i \in 1..Len(ret.outcome.value.vertices) :
             ret.outcome.value.vertices[i] = PLYVertex(splitWhite(arg.body[i]))
        /\ \A i \in 1..Len(ret.outcome.value.faces) :
             /\ Num(Len(ret.outcome.value.faces[i]))
                  = parseInt(splitWhite(arg.body[arg.vertices.n + i])[1])
             /\ \A k \in 1..Len(ret.outcome.value.faces[i]) :
                  /\ ret.outcome.value.faces[i][k].k = "fin"
                  /\ ret.outcome.value.faces[i][k].n >= 0
                  /\ ret.outcome.value.faces[i][k].n < arg.vertices.n

-----------------------------------------------------------------------------
(* Claims about the page: the suggestion, the engine, overlapping drops
   (under SpecApp) *)

\* the visualization names suggestVisualization may give
Suggestions ==
    {"waveform", "timeseries", "3d-brain", "3d-mesh", "3d-pointcloud",
     "heatmap", "auto"}

\* C21: suggestVisualization is total: for each of the nine detected types,
\* and before any file is loaded, it gives the name of a visualization, and
\* for the types without a recommendation of their own (video, generic, no
\* type yet) it gives the default 'auto'.
C21_SuggestionIsTotal ==
    ret.type = "suggestion" =>
        /\ ret.value \in Suggestions
        /\ (ret.detectedType \in {"video", "generic", "null"}
              => ret.value = "auto")
        /\ (ret.value = "auto"
              => ret.detectedType \in {"video", "generic", "null"})

\* the suggestion was asked after a video had been detected, and was 'auto'
C21_Witness ==
    /\ ret.type = "suggestion"
    /\ ret.detectedType = "video"
    /\ ret.value = "auto"
    /\ \E c \in Calls : calls[c].pc = "returned"

\* C26: when handleFiles loads the visualization the adapter suggests for
\* the type detected for its own file, the engine loads it without an error:
\* afterwards the engine has a current visualization and its animation loop
\* is running.
C26_SuggestedVisualizationLoads ==
    [][\A c \in Calls :
         HandleLoaded(c) /\ detectedType = AppLoading[calls[c].file].dataType
           => /\ handlers'[c].vizError = ""
              /\ vizEngine'.currentViz = VizClass(handlers'[c].suggestedViz)
              /\ vizEngine'.animationId
              /\ browser'.rendering]_vars

\* this.currentData holds the data loadFile decoded from this.currentFile
CurrentDataOfCurrentFile ==
    /\ app.currentData.type # "none"
    /\ \E c \in Calls :
         /\ calls[c].pc = "returned"
         /\ calls[c].file = app.currentFile
         /\ app.currentData.data.type = calls[c].envelope.data.type
         /\ app.currentData.data = calls[c].envelope.data

\* C27: when handleFiles calls overlap, every call visualizes its file with
\* the suggestion for the type detected for that file, and once all calls
\* are over and their files were all decoded, this.currentData is the
\* envelope of this.currentFile, the file dropped last.
C27_OverlappingDropsKeepTheirOwnType ==
    /\ \A c \in Calls :
         handlers[c].suggestedViz # "" =>
           handlers[c].suggestedViz
             = suggestVisualization(AppLoading[calls[c].file].dataType)
    /\ (\A c \in Calls : handlers[c].pc = "done" /\ calls[c].pc = "returned")
         => CurrentDataOfCurrentFile

-----------------------------------------------------------------------------
(* Claims about the audio transport (under SpecAudio) *)

\* C28: the 'ended' event of a source that is not the current one (a source
\* a seek, a pause or a stop has stopped) changes nothing when it is
\* dispatched: the audio goes on playing if it played, the current source
\* stays, and pauseTime is not reset.
C28_StaleEndedChangesNothing ==
    [][\A s \in 1..MaxSources :
         OnEnded(s) /\ s # app.audioSource
           => /\ app'.isPlaying = app.isPlaying
              /\ app'.audioSource = app.audioSource
              /\ app'.pauseTime = app.pauseTime
              /\ browser'.playing = browser.playing]_vars

\* C29: isPlaying is true exactly when audioSource is not null, and once
\* stopAudio has run (the stop button, or the end of the source that plays)
\* pauseTime and startTime are 0.
C29_PlayingIffSource ==
    /\ app.isPlaying <=> app.audioSource # 0
    /\ app.isPlaying => app.audioSource \in browser.playing \cup browser.ended
    /\ (/\ ret.type = "audio"
        /\ \/ ret.handler = "stop"
           \/ ret.handler = "ended" /\ ret.before.isPlaying)
         => ~app.isPlaying /\ app.pauseTime = 0 /\ app.startTime = 0

\* the stop button was pressed while a source started after second 0 was
\* playing, and nothing plays now
C29_Witness ==
    /\ ret.type = "audio"
    /\ ret.handler = "stop"
    /\ ret.before.isPlaying
    /\ ret.before.audioSource # 0
    /\ ret.before.startTime # 0
    /\ ~app.isPlaying
    /\ app.audioSource = 0
    /\ ret.before.audioSource \in browser.ended

\* C30: no two decodeAudioData calls are under way on the buffer of one
\* loaded file: a click or a timeline input that comes during a decode
\* starts no second one.
C30_OneDecodePerFile ==
    \A i, j \in 1..Len(browser.decoding) :
        browser.decoding[i].buffer = browser.decoding[j].buffer => i = j

=============================================================================
